---- MODULE Spec2Model ----
(***************************************************************************)
(* Booru-style tag query language of the ebook library backend:            *)
(* tag normalization, alias resolution, expression parsing and filter      *)
(* compilation (app/services/tag_parser.py, app/utils/tag_normalization.py)*)
(* over the catalog kept by app/models.py and app/routers/tags.py.         *)
(*                                                                         *)
(* A Python str is a sequence of one-character strings.  None is a value   *)
(* that is no such sequence.                                               *)
(***************************************************************************)
EXTENDS Integers, Sequences, FiniteSets, TLC

VARIABLES tags, aliases, book_tags, books, next_id, commits, parser, req

vars == <<tags, aliases, book_tags, books, next_id, commits, parser, req>>

None == <<"None">>

(***************************************************************************)
(* Characters                                                              *)
(***************************************************************************)
UpperSeq == <<"A","B","C","D","E","F","G","H","I","J","K","L","M",
              "N","O","P","Q","R","S","T","U","V","W","X","Y","Z">>

LowerSeq == <<"a","b","c","d","e","f","g","h","i","j","k","l","m",
              "n","o","p","q","r","s","t","u","v","w","x","y","z">>

Digits == <<"0","1","2","3","4","5","6","7","8","9">>

Range(s) == {s[i] : i \in DOMAIN s}

\* str.split() and the regex class \s
Whitespace == {" ", "\t"}

\* the regex class [a-z0-9_]
TagChars == Range(LowerSeq) \cup Range(Digits) \cup {"_"}

\* the regex class [a-z0-9]
AlnumChars == Range(LowerSeq) \cup Range(Digits)

\* str.lower() on one character
LowerChar(c) ==
    IF c \in Range(UpperSeq)
    THEN LowerSeq[CHOOSE i \in DOMAIN UpperSeq : UpperSeq[i] = c]
    ELSE c

(***************************************************************************)
(* String primitives of Python used by the parser and the normalizer       *)
(***************************************************************************)
\* str.lower()
Lower(s) == [i \in DOMAIN s |-> LowerChar(s[i])]

\* str.replace(old, new) for a single character old and new
ReplaceChar(s, old, new) == [i \in DOMAIN s |-> IF s[i] = old THEN new ELSE s[i]]

\* every special character turned into an underscore
SpecialToUnderscore(s) == [i \in DOMAIN s |-> IF s[i] \in TagChars THEN s[i] ELSE "_"]

\* re.sub(r'[^a-z0-9_]', '', s)
RemoveSpecial(s) == SelectSeq(s, LAMBDA c : c \in TagChars)

\* the indices 1..Len(s), in order
Indices(s) == [i \in 1..Len(s) |-> i]

\* re.sub(r'_+', '_', s): of every run of '_' only the first is kept
CollapseUnderscores(s) ==
    LET kept == SelectSeq(Indices(s),
                          LAMBDA i : ~ (s[i] = "_" /\ i > 1 /\ s[i - 1] = "_"))
    IN  [k \in DOMAIN kept |-> s[kept[k]]]

\* str.strip(chars): drop the leading and trailing characters that are in cs
StripChars(s, cs) ==
    LET keep == {i \in DOMAIN s : s[i] \notin cs}
    IN  IF keep = {} THEN << >>
        ELSE SubSeq(s, CHOOSE i \in keep : \A j \in keep : i <= j,
                       CHOOSE i \in keep : \A j \in keep : i >= j)

\* first index at or after position from where sub occurs in s, 0 when
\* there is none (str.find, 1-based)
Find(s, sub, from) ==
    LET hits == {i \in from..(Len(s) - Len(sub) + 1) :
                    SubSeq(s, i, i + Len(sub) - 1) = sub}
    IN  IF hits = {} THEN 0 ELSE CHOOSE i \in hits : \A j \in hits : i <= j

\* str.replace(old, new, 1)
ReplaceFirst(s, old, new) ==
    LET i == Find(s, old, 1)
    IN  IF i = 0 THEN s
        ELSE SubSeq(s, 1, i - 1) \o new \o SubSeq(s, i + Len(old), Len(s))

RECURSIVE ReplaceAllFrom(_, _, _, _, _)
ReplaceAllFrom(s, old, new, from, acc) ==
    LET i == Find(s, old, from)
    IN  IF i = 0 THEN acc \o SubSeq(s, from, Len(s))
        ELSE ReplaceAllFrom(s, old, new, i + Len(old),
                            acc \o SubSeq(s, from, i - 1) \o new)

\* str.replace(old, new) for a non-empty old: every non-overlapping
\* occurrence, left to right
ReplaceAll(s, old, new) == ReplaceAllFrom(s, old, new, 1, << >>)

\* str.split(): the maximal runs of non-whitespace characters
Split(s) ==
    LET first == SelectSeq(Indices(s),
                     LAMBDA i : s[i] \notin Whitespace
                                /\ (i = 1 \/ s[i - 1] \in Whitespace))
        last  == SelectSeq(Indices(s),
                     LAMBDA i : s[i] \notin Whitespace
                                /\ (i = Len(s) \/ s[i + 1] \in Whitespace))
    IN  [k \in DOMAIN first |-> SubSeq(s, first[k], last[k])]

\* str.rsplit(':', 1), instead of str.split(':', 1)
SplitLastColon(s) ==
    LET at == {i \in DOMAIN s : s[i] = ":"}
    IN  IF at = {} THEN <<s>>
        ELSE LET i == CHOOSE k \in at : \A m \in at : k >= m
             IN  <<SubSeq(s, 1, i - 1), SubSeq(s, i + 1, Len(s))>>

\* str.split(':', 1)
SplitColon(s) ==
    LET i == Find(s, <<":">>, 1)
    IN  IF i = 0 THEN <<s>>
        ELSE <<SubSeq(s, 1, i - 1), SubSeq(s, i + 1, Len(s))>>

RECURSIVE DecimalDigits(_)
DecimalDigits(n) ==
    IF n < 10 THEN <<Digits[n + 1]>>
    ELSE Append(DecimalDigits(n \div 10), Digits[(n % 10) + 1])

\* f"__QUOTED_{i}__"
Placeholder(i) ==
    <<"_","_","Q","U","O","T","E","D","_">> \o DecimalDigits(i) \o <<"_","_">>

(***************************************************************************)
(* app/utils/tag_normalization.py                                          *)
(***************************************************************************)
\* the underscores trimmed before the special characters are removed
normalize_strip_first(raw_name) ==
    IF raw_name = << >> THEN << >>
    ELSE CollapseUnderscores(
           RemoveSpecial(
             StripChars(
               ReplaceChar(ReplaceChar(ReplaceChar(Lower(raw_name),
                                                   "/", "_"),
                                       "-", "_"),
                           " ", "_"),
               {"_"})))

normalize_tag_name(raw_name) ==
    IF raw_name = << >> THEN << >>
    ELSE StripChars(
           CollapseUnderscores(
             RemoveSpecial(
               ReplaceChar(ReplaceChar(ReplaceChar(Lower(raw_name),
                                                   "/", "_"),
                                       "-", "_"),
                           " ", "_"))),
           {"_"})

\* the length test with 1 in place of 2
is_valid_min_one(name) ==
    IF name = << >> THEN FALSE
    ELSE LET normalized == normalize_tag_name(name)
         IN  Len(normalized) >= 1
             /\ \E i \in DOMAIN normalized : normalized[i] \in AlnumChars

is_valid_tag_name(name) ==
    IF name = << >> THEN FALSE
    ELSE LET normalized == normalize_tag_name(name)
         IN  IF Len(normalized) < 2 THEN FALSE
             ELSE IF ~ (\E i \in DOMAIN normalized : normalized[i] \in AlnumChars)
                  THEN FALSE
                  ELSE TRUE

(***************************************************************************)
(* app/services/tag_parser.py: TagTerm, TagQuery                           *)
(***************************************************************************)
TagTerm(tag_name, tag_type, exclude) ==
    [kind |-> "TagTerm", tag_name |-> tag_name, tag_type |-> tag_type,
     exclude |-> exclude]

TagQuery(terms, operator) ==
    [kind |-> "TagQuery", terms |-> terms, operator |-> operator]

\* an exception leaving parse
ParseError == [kind |-> "Error"]

(***************************************************************************)
(* TagExpressionParser.resolve_alias, given the loaded alias dictionary    *)
(***************************************************************************)
\* aliases.get(tag_name, normalized): the lookup by the raw name
resolve_alias_raw(tag_name, alias_map) ==
    LET normalized == normalize_tag_name(tag_name)
    IN  IF tag_name \in DOMAIN alias_map THEN alias_map[tag_name]
        ELSE normalized

resolve_alias(tag_name, alias_map) ==
    LET normalized == normalize_tag_name(tag_name)
    IN  IF normalized \in DOMAIN alias_map THEN alias_map[normalized]
        ELSE normalized

(***************************************************************************)
(* TagExpressionParser.parse                                               *)
(***************************************************************************)
Quote == "\""

RECURSIVE QuotedFrom(_, _, _)
\* the scan is at from; i is the next quote and j the quote after it
QuotedFrom(s, from, acc) ==
    LET i == Find(s, <<Quote>>, from)
        j == IF i = 0 THEN 0 ELSE Find(s, <<Quote>>, i + 1)
    IN  IF j = 0 THEN acc
        ELSE IF j = i + 1 THEN QuotedFrom(s, i + 1, acc)
        ELSE QuotedFrom(s, j + 1, Append(acc, <<i, j>>))

\* list(re.finditer(r'"([^"]+)"', s)): the spans <<first, last>> of the
\* non-overlapping matches, left to right
quoted_matches(s) == QuotedFrom(s, 1, << >>)

\* match.group(1) of every match
quoted_values_of(s) ==
    LET ms == quoted_matches(s)
    IN  [k \in DOMAIN ms |-> SubSeq(s, ms[k][1] + 1, ms[k][2] - 1)]

RECURSIVE SubstituteFrom(_, _, _)
SubstituteFrom(s, groups, k) ==
    IF k > Len(groups) THEN s
    ELSE SubstituteFrom(ReplaceFirst(s, groups[k], Placeholder(k - 1)),
                        groups, k + 1)

\* the loop that replaces match.group(0) by its placeholder, once each,
\* in the string as rewritten so far
substitute_placeholders(s) ==
    LET ms == quoted_matches(s)
    IN  SubstituteFrom(s, [k \in DOMAIN ms |-> SubSeq(s, ms[k][1], ms[k][2])], 1)

\* end of the whitespace run that starts at i
WsRunEnd(s, i) ==
    LET stops == {k \in i..Len(s) : s[k] \notin Whitespace}
    IN  IF stops = {} THEN Len(s)
        ELSE (CHOOSE k \in stops : \A m \in stops : k <= m) - 1

\* last index of a match of \s+OR\s+ (IGNORECASE) starting at i, 0 if none
OrMatchEnd(s, i) ==
    IF s[i] \notin Whitespace THEN 0
    ELSE LET k == WsRunEnd(s, i) + 1
         IN  IF /\ k + 2 <= Len(s)
                /\ LowerChar(s[k]) = "o"
                /\ LowerChar(s[k + 1]) = "r"
                /\ s[k + 2] \in Whitespace
             THEN WsRunEnd(s, k + 2)
             ELSE 0

RECURSIVE OrSplitFrom(_, _, _)
\* the scan is at from, where the current part starts as well; i is
\* where the next match starts
OrSplitFrom(s, from, acc) ==
    LET starts == {k \in from..Len(s) : OrMatchEnd(s, k) # 0}
    IN  IF starts = {} THEN Append(acc, SubSeq(s, from, Len(s)))
        ELSE LET i == CHOOSE k \in starts : \A m \in starts : k <= m
             IN  OrSplitFrom(s, OrMatchEnd(s, i) + 1,
                             Append(acc, SubSeq(s, from, i - 1)))

\* re.split(r'\s+OR\s+', s, flags=re.IGNORECASE)
or_split(s) == OrSplitFrom(s, 1, << >>)

RECURSIVE RestoreFrom(_, _, _)
RestoreFrom(token, quoted_values, k) ==
    IF k > Len(quoted_values) THEN token
    ELSE RestoreFrom(ReplaceAll(token, Placeholder(k - 1), quoted_values[k]),
                     quoted_values, k + 1)

\* the loop over enumerate(quoted_values) that puts the quoted text back
restore_quoted(token, quoted_values) == RestoreFrom(token, quoted_values, 1)

\* '-' in token, instead of token.startswith('-')
ContainsDash(token) == \E i \in DOMAIN token : token[i] = "-"

\* token.startswith('-')
StartsWithDash(token) == Len(token) > 0 /\ token[1] = "-"

\* the split without the test ':' in token
AlwaysColon(token) == TRUE

\* ':' in token
HasColon(token) == \E i \in DOMAIN token : token[i] = ":"

\* the body of the loop over the tokens: the TagTerm of one token
parse_token(raw_token, quoted_values, alias_map) ==
    LET restored == restore_quoted(raw_token, quoted_values)
        exclude  == StartsWithDash(restored)
        token    == IF exclude THEN SubSeq(restored, 2, Len(restored))
                    ELSE restored
    IN  IF HasColon(token)
        THEN LET parts == SplitColon(token)
             IN  IF Len(parts) < 2 THEN ParseError
                 ELSE TagTerm(resolve_alias(parts[2], alias_map), parts[1],
                              exclude)
        ELSE TagTerm(resolve_alias(token, alias_map), None, exclude)

\* _parse_and_expression returning an OR-query of its terms
parse_or_expression(expr, quoted_values, alias_map) ==
    LET tokens == Split(expr)
        terms  == [k \in DOMAIN tokens |->
                      parse_token(tokens[k], quoted_values, alias_map)]
    IN  IF \E k \in DOMAIN terms : terms[k] = ParseError THEN ParseError
        ELSE TagQuery(terms, "OR")

\* TagExpressionParser._parse_and_expression
parse_and_expression(expr, quoted_values, alias_map) ==
    LET tokens == Split(expr)
        terms  == [k \in DOMAIN tokens |->
                      parse_token(tokens[k], quoted_values, alias_map)]
    IN  IF \E k \in DOMAIN terms : terms[k] = ParseError THEN ParseError
        ELSE TagQuery(terms, "AND")

\* one entry of the OR-query: the branch's only term, or the branch
\* mutant: a branch of one term stays a nested query
or_branch_nested(sub_query) ==
    sub_query

or_branch(sub_query) ==
    IF sub_query = ParseError THEN ParseError
    ELSE IF Len(sub_query.terms) = 1 THEN sub_query.terms[1]
    ELSE sub_query

\* TagExpressionParser.parse
parse(query_string, alias_map) ==
    IF query_string = << >> \/ StripChars(query_string, Whitespace) = << >>
    THEN TagQuery(<< >>, "AND")
    ELSE LET quoted_values == quoted_values_of(query_string)
             replaced      == substitute_placeholders(query_string)
             or_parts      == or_split(replaced)
         IN  IF Len(or_parts) > 1
             THEN LET terms == [k \in DOMAIN or_parts |->
                                  or_branch(parse_and_expression(
                                      or_parts[k], quoted_values, alias_map))]
                  IN  IF \E k \in DOMAIN terms : terms[k] = ParseError
                      THEN ParseError
                      ELSE TagQuery(terms, "OR")
             ELSE parse_and_expression(replaced, quoted_values, alias_map)

\* whether parse calls resolve_alias at all, that is, whether some OR
\* branch has a token
NeedsAliases(query_string) ==
    /\ query_string # << >>
    /\ StripChars(query_string, Whitespace) # << >>
    /\ LET or_parts == or_split(substitute_placeholders(query_string))
       IN  \E k \in DOMAIN or_parts : Split(or_parts[k]) # << >>

(***************************************************************************)
(* TagExpressionParser.build_filter: SQLAlchemy expressions as trees       *)
(***************************************************************************)
\* if term.tag_type:
Truthy(tag_type) == tag_type # None /\ tag_type # << >>

\* _build_tag_filter without the notin_ branch
build_tag_filter_no_exclude(term) ==
    [op   |-> "in",
     name |-> term.tag_name,
     type |-> IF term.tag_type # None /\ term.tag_type # << >>
              THEN term.tag_type ELSE None]

\* _build_tag_filter without the condition on Tag.type
build_tag_filter_untyped(term) ==
    [op   |-> IF term.exclude THEN "notin" ELSE "in",
     name |-> term.tag_name,
     type |-> None]

\* TagExpressionParser._build_tag_filter
build_tag_filter(term) ==
    [op   |-> IF term.exclude THEN "notin" ELSE "in",
     name |-> term.tag_name,
     type |-> IF Truthy(term.tag_type) THEN term.tag_type ELSE None]

\* the None that _build_filter_from_terms returns when it has no filter
NoFilter == [op |-> "None"]

\* and_(*filters) whatever the operator
CombineAnd(operator, filters) == [op |-> "and", args |-> filters]

\* or_(*filters) / and_(*filters)
Combine(operator, filters) ==
    [op |-> IF operator = "OR" THEN "or" ELSE "and", args |-> filters]

RECURSIVE build_filter_from_terms(_, _)
\* TagExpressionParser._build_filter_from_terms
build_filter_from_terms(terms, operator) ==
    LET each == [k \in DOMAIN terms |->
                   IF terms[k].kind = "TagQuery"
                   THEN build_filter_from_terms(terms[k].terms,
                                                terms[k].operator)
                   ELSE build_tag_filter(terms[k])]
        filters == SelectSeq(each, LAMBDA f : f # NoFilter)
    IN  IF filters = << >> THEN NoFilter
        ELSE Combine(operator, filters)

\* build_filter without its two early returns of the unmodified query
build_filter_unguarded(query, book_query) ==
    LET each == [k \in DOMAIN query.terms |->
                   IF query.terms[k].kind = "TagQuery"
                   THEN build_filter_from_terms(query.terms[k].terms,
                                                query.terms[k].operator)
                   ELSE build_tag_filter(query.terms[k])]
        filters == SelectSeq(each, LAMBDA f : f # NoFilter)
    IN  Append(book_query, Combine(query.operator, filters))

\* TagExpressionParser.build_filter; a book query is the sequence of the
\* filter clauses put on db.query(Book)
build_filter(query, book_query) ==
    IF query.terms = << >> THEN book_query
    ELSE LET each == [k \in DOMAIN query.terms |->
                        IF query.terms[k].kind = "TagQuery"
                        THEN build_filter_from_terms(query.terms[k].terms,
                                                     query.terms[k].operator)
                        ELSE build_tag_filter(query.terms[k])]
             filters == SelectSeq(each, LAMBDA f : f # NoFilter)
         IN  IF filters = << >> THEN book_query
             ELSE Append(book_query, Combine(query.operator, filters))

(***************************************************************************)
(* The catalog store evaluating a book query                               *)
(***************************************************************************)
\* db.query(Book.id).join(Book.tags).filter(and_(*tag_conditions))
tag_subquery(f, cat_tags, cat_book_tags, cat_books) ==
    {b \in cat_books :
        \E t \in cat_tags :
            /\ <<b, t.id>> \in cat_book_tags
            /\ t.name = f.name
            /\ (f.type # None => t.type = f.type)}

\* Book.title and the names of Book.authors: no operation of the model
\* writes them, they are given with the book's id
BookTitle(b) ==
    CASE b = 1 -> <<"A", " ", "d">>
      [] b = 2 -> <<"t", ":", "A">>
      [] b = 3 -> <<"x", "-", "B">>
      [] OTHER -> <<"x">>

BookAuthors(b) ==
    CASE b = 4 -> {<<"D">>}
      [] b = 5 -> {<<"a", "x", "b">>, <<"x">>}
      [] OTHER -> {}

RECURSIVE LikeFrom(_, _, _, _)
\* SQL LIKE without regard to case: '%' stands for any run of characters
\* and '_' for any one character
LikeFrom(text, i, pattern, j) ==
    IF j > Len(pattern) THEN i > Len(text)
    ELSE IF pattern[j] = "%"
         THEN \E k \in i..(Len(text) + 1) : LikeFrom(text, k, pattern, j + 1)
         ELSE /\ i <= Len(text)
              /\ pattern[j] = "_" \/ LowerChar(pattern[j]) = LowerChar(text[i])
              /\ LikeFrom(text, i + 1, pattern, j + 1)

\* column.ilike(f"%{search}%")
ilike(text, search) == LikeFrom(text, 1, <<"%">> \o search \o <<"%">>, 1)

\* the filter of the simple text search of get_books
text_search_filter(search) == [op |-> "ilike", search |-> search]

\* any(op in search for op in [' OR ', '-', ':']) or not ' ' in search
is_tag_expression(search) ==
    \/ Find(search, <<" ", "O", "R", " ">>, 1) # 0
    \/ \E i \in DOMAIN search : search[i] \in {"-", ":"}
    \/ \A i \in DOMAIN search : search[i] # " "

RECURSIVE EvalFilter(_, _, _, _, _)
EvalFilter(f, b, cat_tags, cat_book_tags, cat_books) ==
    CASE f.op = "in"    -> b \in tag_subquery(f, cat_tags, cat_book_tags, cat_books)
      [] f.op = "ilike" -> \/ ilike(BookTitle(b), f.search)
                           \/ \E name \in BookAuthors(b) : ilike(name, f.search)
                           \/ \E t \in cat_tags : /\ <<b, t.id>> \in cat_book_tags
                                                  /\ ilike(t.name, f.search)
      [] f.op = "notin" -> b \notin tag_subquery(f, cat_tags, cat_book_tags, cat_books)
      [] f.op = "and"   -> \A k \in DOMAIN f.args :
                              EvalFilter(f.args[k], b, cat_tags, cat_book_tags, cat_books)
      [] f.op = "or"    -> \E k \in DOMAIN f.args :
                              EvalFilter(f.args[k], b, cat_tags, cat_book_tags, cat_books)

\* the ids of the books a book query selects
Execute(book_query, cat_tags, cat_book_tags, cat_books) ==
    {b \in cat_books :
        \A k \in DOMAIN book_query :
            EvalFilter(book_query[k], b, cat_tags, cat_book_tags, cat_books)}

(***************************************************************************)
(* Strings used as inputs and as stored names                              *)
(***************************************************************************)
S_a == <<"a">>
S_b == <<"b">>
S_c == <<"c">>
S_d == <<"d">>
S_t == <<"t">>
S_u == <<"u">>
S_a_b == <<"a","_","b">>
S_ab == <<"a","b">>
S_fantasy == <<"f","a","n","t","a","s","y">>
S_romance == <<"r","o","m","a","n","c","e">>
S_dark == <<"d","a","r","k">>
S_grimdark == <<"g","r","i","m","d","a","r","k">>
S_scifi == <<"s","c","i","f","i">>
S_genre == <<"g","e","n","r","e">>
S_tone == <<"t","o","n","e">>
S_author == <<"a","u","t","h","o","r">>
S_meta == <<"m","e","t","a">>
S_gene_wolfe == <<"g","e","n","e","_","w","o","l","f","e">>
S_ursula_le_guin == <<"u","r","s","u","l","a","_","l","e","_","g","u","i","n">>
S_sci_fi == <<"s","c","i","_","f","i">>
S_science_fiction == <<"s","c","i","e","n","c","e","_","f","i","c","t","i","o","n">>
S_unknown_term == <<"u","n","k","n","o","w","n","_","t","e","r","m">>

(***************************************************************************)
(* Query strings: every way of joining at most MaxTokens of the token      *)
(* texts below with a separator, and the queries of the documentation      *)
(***************************************************************************)
MaxTokens == 2

\* no token at all
T_empty == <<>>
\* 'a'
T_a == <<"a">>
\* '-b'
T_not_b == <<"-","b">>
\* 't:a'
T_t_a == <<"t",":","a">>
\* '-u:a'
T_not_u_a == <<"-","u",":","a">>
\* '"a b"'
T_quoted == <<"\"","a"," ","b","\"">>
\* '"b:c"'
T_quoted_colon == <<"\"","b",":","c","\"">>
\* '"-a"'
T_quoted_dash == <<"\"","-","a","\"">>
\* '-'
T_dash == <<"-">>
\* an unbalanced quote
T_quote == <<"\"">>
\* an alias when the catalog has one
T_d == <<"d">>
\* text that looks like a placeholder
T_placeholder == <<"_","_","Q","U","O","T","E","D","_","0","_","_">>
\* a leading colon
T_colon_c == <<":","c">>
\* '(c)'
T_paren == <<"(","c",")">>

TokenTexts == {T_empty, T_a, T_not_b, T_t_a, T_not_u_a, T_quoted, T_quoted_colon,
               T_dash, T_quote, T_d}

Separators == {<<" ">>, <<" ","O","R"," ">>}

RECURSIVE JoinFrom(_, _, _)
JoinFrom(ts, ss, k) ==
    IF k > Len(ts) THEN << >>
    ELSE IF k = Len(ts) THEN ts[k]
    ELSE ts[k] \o ss[k] \o JoinFrom(ts, ss, k + 1)

GeneratedQueries ==
    UNION {{JoinFrom(ts, ss, 1) : ts \in [1..n -> TokenTexts],
                                  ss \in [1..(n - 1) -> Separators]} :
           n \in 1..MaxTokens}

\* 'fantasy -romance'
Q_fantasy_not_romance == <<"f","a","n","t","a","s","y"," ","-","r","o","m","a","n","c","e">>
\* 'genre:scifi'
Q_genre_scifi == <<"g","e","n","r","e",":","s","c","i","f","i">>
\* '-genre:scifi'
Q_not_genre_scifi == <<"-","g","e","n","r","e",":","s","c","i","f","i">>
\* 'author:"Gene Wolfe" OR author:"Ursula Le Guin"'
Q_two_authors == <<"a","u","t","h","o","r",":","\"","G","e","n","e"," ","W","o","l","f","e","\""," ","O","R"," ","a","u","t","h","o","r",":","\"","U","r","s","u","l","a"," ","L","e"," ","G","u","i","n","\"">>
\* 'genre:fantasy -tone:grimdark'
Q_fantasy_not_grimdark == <<"g","e","n","r","e",":","f","a","n","t","a","s","y"," ","-","t","o","n","e",":","g","r","i","m","d","a","r","k">>
\* 'genre:fantasy OR genre:scifi'
Q_fantasy_or_scifi == <<"g","e","n","r","e",":","f","a","n","t","a","s","y"," ","O","R"," ","g","e","n","r","e",":","s","c","i","f","i">>
\* 'a b OR c'
Q_a_b_or_c == <<"a"," ","b"," ","O","R"," ","c">>
\* 'a OR b c'
Q_a_or_b_c == <<"a"," ","O","R"," ","b"," ","c">>
\* whitespace only
Q_blank == <<" ","\t"," ">>
\* tab, lower-case or, two spaces, upper-case name
Q_tab_or == <<"a","\t","o","r"," "," ","B">>
\* '(author:"Gene Wolfe" OR author:"Ursula Le Guin") genre:fantasy'
Q_paren_authors == <<"(","a","u","t","h","o","r",":","\"","G","e","n","e"," ","W","o","l","f","e","\""," ","O","R"," ","a","u","t","h","o","r",":","\"","U","r","s","u","l","a"," ","L","e"," ","G","u","i","n","\"",")"," ","g","e","n","r","e",":","f","a","n","t","a","s","y">>
\* '__QUOTED_0__ "a b"'
Q_placeholder_quoted == T_placeholder \o <<" ">> \o T_quoted
\* '"a OR b" c'
Q_quoted_or == <<"\"","a"," ","O","R"," ","b","\""," ","c">>
\* eleven quoted names, so that a two-digit placeholder is used
Q_eleven_quotes == <<"\"","a","0","\""," ","\"","a","1","\""," ","\"","a","2","\""," ","\"","a","3","\""," ","\"","a","4","\""," ","\"","a","5","\""," ","\"","a","6","\""," ","\"","a","7","\""," ","\"","a","8","\""," ","\"","a","9","\""," ","\"","a","1","0","\"">>
\* 't:a:b'
Q_two_colons == <<"t",":","a",":","b">>
\* 'Sci-Fi'
Q_Sci_Fi == <<"S","c","i","-","F","i">>
\* 'sci fi'
Q_sci_fi_spaced == <<"s","c","i"," ","f","i">>
\* 'SCI_FI'
Q_SCI_FI == <<"S","C","I","_","F","I">>

\* 'fantasy -'
Q_fantasy_dash == <<"f","a","n","t","a","s","y"," ","-">>

ExampleQueries == {T_quoted_dash, T_placeholder, T_colon_c, T_paren,
                   Q_fantasy_dash,
                   Q_placeholder_quoted,
                   Q_fantasy_not_romance,
                   Q_two_colons,
                   Q_genre_scifi,
                   Q_not_genre_scifi,
                   Q_two_authors,
                   Q_fantasy_not_grimdark,
                   Q_fantasy_or_scifi,
                   Q_a_b_or_c,
                   Q_a_or_b_c,
                   Q_blank,
                   Q_tab_or,
                   Q_paren_authors,
                   Q_quoted_or,
                   Q_eleven_quotes,
                   Q_Sci_Fi,
                   Q_sci_fi_spaced,
                   Q_SCI_FI}

Queries == GeneratedQueries \cup ExampleQueries

(***************************************************************************)
(* The catalog (app/models.py)                                             *)
(***************************************************************************)
\* a row of the tags table
Tag(id, name, type, usage_count) ==
    [id |-> id, name |-> name, type |-> type, usage_count |-> usage_count]

\* a row of the tag_aliases table
TagAlias(id, alias, canonical_tag_id) ==
    [id |-> id, alias |-> alias, canonical_tag_id |-> canonical_tag_id]

\* db.query(Tag).get(id) and filter(...).first(): the rows as a set
TagsById(id) == {t \in tags : t.id = id}

TagsByName(name) == {t \in tags : t.name = name}

\* the alias dictionary a full _load_aliases builds from the tables
\* as they stand
StoredAliasMap ==
    LET live == {a \in aliases : TagsById(a.canonical_tag_id) # {}}
    IN  [k \in {normalize_tag_name(a.alias) : a \in live} |->
            LET a == CHOOSE x \in live : normalize_tag_name(x.alias) = k
            IN  (CHOOSE t \in tags : t.id = a.canonical_tag_id).name]

(***************************************************************************)
(* A search request: get_books calling apply_tag_filter                    *)
(***************************************************************************)
NumRequests == 1

Requests == 1..NumRequests

\* self.db = db; self._aliases_cache = None
FreshParser ==
    [cache_set |-> FALSE, aliases_cache |-> << >>, alias_records |-> {}]

\* one parser kept by the handler and reused by its next call
shared_parser(previous) == previous

\* TagExpressionParser.__init__: the parser apply_tag_filter makes for a
\* call, whatever parser the previous call worked with
new_parser(previous) == FreshParser

\* quiet records that nothing was committed since the request started
IdleRequest ==
    [pc |-> "idle", expression |-> << >>, quiet |-> TRUE,
     query |-> TagQuery(<< >>, "AND"), book_query |-> << >>, result |-> {}]

\* aliases[key] = value on a Python dict
DictPut(d, key, value) ==
    [k \in (DOMAIN d) \cup {key} |-> IF k = key THEN value ELSE d[k]]

\* apply_tag_filter is entered: parser = TagExpressionParser(db)
SearchStart(r, expression) ==
    /\ req[r].pc = "idle"
    /\ req' = [req EXCEPT ![r] = [IdleRequest EXCEPT !.pc = "parse",
                                                     !.expression = expression]]
    /\ parser' = [parser EXCEPT ![r] = new_parser(parser[r])]
    /\ UNCHANGED <<tags, aliases, book_tags, books, next_id, commits>>

\* _load_aliases, first statement: db.query(TagAlias).all(), reached from
\* the first resolve_alias of parse when the cache is not set
ReadAliasRecords(r) ==
    /\ req[r].pc = "parse"
    /\ ~ parser[r].cache_set
    /\ NeedsAliases(req[r].expression)
    /\ parser' = [parser EXCEPT ![r].alias_records = aliases,
                                ![r].aliases_cache = << >>]
    /\ req' = [req EXCEPT ![r].pc = "load"]
    /\ UNCHANGED <<tags, aliases, book_tags, books, next_id, commits>>

\* _load_aliases, one turn of the loop: db.query(Tag).get(canonical_tag_id)
\* for one of the alias records read
LookupCanonical(r) ==
    /\ req[r].pc = "load"
    /\ \E alias_record \in parser[r].alias_records :
          LET canonical_tag == TagsById(alias_record.canonical_tag_id)
          IN  parser' = [parser EXCEPT
                  ![r].alias_records = @ \ {alias_record},
                  ![r].aliases_cache =
                      IF canonical_tag # {}
                      THEN DictPut(@, normalize_tag_name(alias_record.alias),
                                   (CHOOSE t \in canonical_tag : TRUE).name)
                      ELSE @]
    /\ UNCHANGED <<tags, aliases, book_tags, books, next_id, commits, req>>

\* mutant: an empty alias map counts as no map (if self._aliases_cache:)
SearchParse_truthy(r) ==
    /\ \/ /\ req[r].pc = "parse"
          /\ parser[r].cache_set \/ ~ NeedsAliases(req[r].expression)
       \/ /\ req[r].pc = "load"
          /\ parser[r].alias_records = {}
    /\ LET loaded == /\ req[r].pc = "load"
                     /\ DOMAIN parser[r].aliases_cache # {}
           query  == parse(req[r].expression, parser[r].aliases_cache)
       IN  /\ parser' = [parser EXCEPT ![r].cache_set = @ \/ loaded]
           /\ req' = [req EXCEPT ![r].query = query,
                                 ![r].pc = IF query = ParseError THEN "failed"
                                           ELSE "build"]
    /\ UNCHANGED <<tags, aliases, book_tags, books, next_id, commits>>

\* the rest of parse: the alias dictionary is complete (or is not needed,
\* or was set before) and every token becomes a term
SearchParse(r) ==
    /\ \/ /\ req[r].pc = "parse"
          /\ parser[r].cache_set \/ ~ NeedsAliases(req[r].expression)
       \/ /\ req[r].pc = "load"
          /\ parser[r].alias_records = {}
    /\ LET loaded == req[r].pc = "load"
           query  == parse(req[r].expression, parser[r].aliases_cache)
       IN  /\ parser' = [parser EXCEPT ![r].cache_set = @ \/ loaded]
           /\ req' = [req EXCEPT ![r].query = query,
                                 ![r].pc = IF query = ParseError THEN "failed"
                                           ELSE "build"]
    /\ UNCHANGED <<tags, aliases, book_tags, books, next_id, commits>>

\* parser.build_filter(query, book_query) on db.query(Book)
SearchBuild(r) ==
    /\ req[r].pc = "build"
    /\ req' = [req EXCEPT ![r].book_query = build_filter(req[r].query, << >>),
                          ![r].pc = "execute"]
    /\ UNCHANGED <<tags, aliases, book_tags, books, next_id, commits, parser>>

\* get_books runs the filtered query
SearchExecute(r) ==
    /\ req[r].pc = "execute"
    /\ req' = [req EXCEPT ![r].result = Execute(req[r].book_query, tags,
                                                book_tags, books),
                          ![r].pc = "done"]
    /\ UNCHANGED <<tags, aliases, book_tags, books, next_id, commits, parser>>

\* the response is sent; the handler can serve the next request
SearchEnd(r) ==
    /\ req[r].pc \in {"done", "failed"}
    /\ req' = [req EXCEPT ![r] = IdleRequest]
    /\ UNCHANGED <<tags, aliases, book_tags, books, next_id, commits, parser>>

(***************************************************************************)
(* Catalogs to run single searches against                                 *)
(***************************************************************************)
\* books 1..8 carry every subset of the tags a, b, c; book 9 carries a_b;
\* d is an alias of a and sci_fi an alias of science_fiction
CatLetters ==
    [tags      |-> {Tag(1, S_a, S_t, 4), Tag(2, S_b, S_u, 4), Tag(3, S_c, S_t, 4),
                    Tag(4, S_a_b, S_t, 1), Tag(5, S_science_fiction, S_genre, 0)},
     aliases   |-> {TagAlias(1, S_d, 1), TagAlias(2, S_sci_fi, 5)},
     book_tags |-> {<<2, 1>>, <<3, 2>>, <<4, 1>>, <<4, 2>>, <<5, 3>>,
                    <<6, 1>>, <<6, 3>>, <<7, 2>>, <<7, 3>>,
                    <<8, 1>>, <<8, 2>>, <<8, 3>>, <<9, 4>>},
     books     |-> 1..9]

\* the catalog of the documentation: book 1 is A, book 2 is B
CatExample ==
    [tags      |-> {Tag(1, S_fantasy, S_genre, 1), Tag(2, S_dark, S_tone, 1),
                    Tag(3, S_scifi, S_genre, 1)},
     aliases   |-> {},
     book_tags |-> {<<1, 1>>, <<1, 2>>, <<2, 3>>},
     books     |-> 1..2]

\* books by the two authors of the documented queries, with and without
\* the genre fantasy
CatAuthors ==
    [tags      |-> {Tag(1, S_fantasy, S_genre, 3), Tag(2, S_gene_wolfe, S_author, 2),
                    Tag(3, S_ursula_le_guin, S_author, 2)},
     aliases   |-> {},
     book_tags |-> {<<1, 1>>, <<1, 2>>, <<2, 2>>, <<3, 1>>, <<3, 3>>,
                    <<4, 3>>, <<5, 1>>},
     books     |-> 1..6]

\* a is of another type here, b is an alias of a, one book has no tag
CatSmall ==
    [tags      |-> {Tag(1, S_a, S_u, 1), Tag(2, S_c, S_t, 1)},
     aliases   |-> {TagAlias(1, S_b, 1)},
     book_tags |-> {<<1, 1>>, <<2, 2>>},
     books     |-> 1..3]

Catalogs == {CatLetters, CatExample, CatAuthors, CatSmall}

(***************************************************************************)
(* QuerySpec: one search of any query string against a given catalog       *)
(***************************************************************************)
QInit ==
    /\ \E cat \in Catalogs :
          /\ tags = cat.tags
          /\ aliases = cat.aliases
          /\ book_tags = cat.book_tags
          /\ books = cat.books
    /\ next_id = [tag |-> 6, alias |-> 3]
    /\ commits = 0
    /\ parser = [r \in Requests |-> FreshParser]
    /\ req = [r \in Requests |-> IdleRequest]

\* the query strings tried on a catalog: all of them on the catalogs of
\* one-letter tags, the documented ones on the documented catalogs
QueriesFor(cat_tags) ==
    IF cat_tags \in {CatLetters.tags, CatSmall.tags} THEN Queries
    ELSE ExampleQueries

QNext ==
    \/ \E expression \in QueriesFor(tags) : SearchStart(1, expression)
    \/ ReadAliasRecords(1)
    \/ LookupCanonical(1)
    \/ SearchParse(1)
    \/ SearchBuild(1)
    \/ SearchExecute(1)

QuerySpec == QInit /\ [][QNext]_vars

(***************************************************************************)
(* Properties of a single search (QuerySpec)                               *)
(***************************************************************************)
\* the request has been parsed
Parsed(r) == req[r].pc \in {"build", "execute", "done"}

InCatalog(cat) ==
    /\ tags = cat.tags
    /\ aliases = cat.aliases
    /\ book_tags = cat.book_tags
    /\ books = cat.books

RECURSIVE HasTerms(_)
\* some TagTerm occurs in the node
HasTerms(node) ==
    \/ node.kind = "TagTerm"
    \/ /\ node.kind = "TagQuery"
       /\ \E k \in DOMAIN node.terms : HasTerms(node.terms[k])

RECURSIVE Holds(_, _)
\* the truth of a query's boolean expression for book b: a term holds iff
\* the book is associated to a tag of that name (and of that type, when the
\* term has a non-empty type), negated for an excluded term; an AND node
\* holds iff all its operands hold and an OR node iff one does, operands
\* in which no term occurs standing for no condition at all
Holds(node, b) ==
    IF node.kind = "TagTerm"
    THEN LET has == \E t \in tags :
                        /\ <<b, t.id>> \in book_tags
                        /\ t.name = node.tag_name
                        /\ (node.tag_type \notin {None, << >>}
                               => t.type = node.tag_type)
         IN  IF node.exclude THEN ~ has ELSE has
    ELSE LET operands == {k \in DOMAIN node.terms : HasTerms(node.terms[k])}
         IN  IF operands = {} THEN TRUE
             ELSE IF node.operator = "OR"
                  THEN \E k \in operands : Holds(node.terms[k], b)
                  ELSE \A k \in operands : Holds(node.terms[k], b)

PlainAndQuery(q) ==
    /\ \A i \in DOMAIN q : q[i] # Quote
    /\ ~ \E i \in 1..(Len(q) - 3) :
            /\ q[i] \in Whitespace
            /\ q[i + 1] \in {"o", "O"}
            /\ q[i + 2] \in {"r", "R"}
            /\ q[i + 3] \in Whitespace

\* where the whitespace-separated tokens of q start
TokenStarts(q) ==
    {i \in DOMAIN q : q[i] \notin Whitespace /\ (i = 1 \/ q[i - 1] \in Whitespace)}

\* where the k-th token of q starts
TokenStart(q, k) ==
    CHOOSE i \in TokenStarts(q) : Cardinality({j \in TokenStarts(q) : j <= i}) = k

\* where the token that starts at i ends
TokenEnd(q, i) ==
    CHOOSE j \in i..Len(q) :
        /\ \A m \in i..j : q[m] \notin Whitespace
        /\ (j = Len(q) \/ q[j + 1] \in Whitespace)

\* C2: a query without OR and without quotes parses to an AND-query with
\* one TagTerm per whitespace-separated token, in order; a term is excluded
\* exactly when its token starts with '-', and has no type exactly when its
\* token has no colon; "fantasy -romance" gives fantasy and -romance
C2_OneTermPerToken ==
    LET q == req[1].expression
        query == req[1].query
    IN  (Parsed(1) /\ PlainAndQuery(q)) =>
          /\ query.kind = "TagQuery"
          /\ query.operator = "AND"
          /\ Len(query.terms) = Cardinality(TokenStarts(q))
          /\ \A k \in DOMAIN query.terms :
                LET i == TokenStart(q, k)
                    j == TokenEnd(q, i)
                IN  /\ query.terms[k].kind = "TagTerm"
                    /\ query.terms[k].exclude = (q[i] = "-")
                    /\ (query.terms[k].tag_type = None)
                          = (\A m \in i..j : q[m] # ":")
          /\ q = Q_fantasy_not_romance =>
                query = TagQuery(<<TagTerm(S_fantasy, None, FALSE),
                                   TagTerm(S_romance, None, TRUE)>>, "AND")

C2_Witness ==
    /\ Parsed(1)
    /\ req[1].expression = Q_fantasy_not_romance
    /\ Len(req[1].query.terms) = 2
    /\ req[1].query.terms[2].exclude

\* the name the stored alias table gives a raw tag name: the name of the
\* tag that the alias equal to the normalized name points to, else the
\* normalized name
StoredName(raw) ==
    LET n == normalize_tag_name(raw)
        hit == {a \in aliases : a.alias = n}
    IN  IF hit = {} THEN n
        ELSE (CHOOSE t \in tags :
                 t.id = (CHOOSE a \in hit : TRUE).canonical_tag_id).name

\* C3: in a token with a colon (no quotes, no OR in the query) the text
\* left of the first colon, after one leading '-', is the tag_type and the
\* text right of it, normalized and alias-resolved, is the tag_name;
\* "genre:scifi" gives (scifi, genre, not excluded) and "-genre:scifi" the
\* same term excluded
C3_TypePrefix ==
    LET q == req[1].expression
        query == req[1].query
    IN  (Parsed(1) /\ PlainAndQuery(q)) =>
          /\ \A k \in 1..Cardinality(TokenStarts(q)) :
                LET i == TokenStart(q, k)
                    j == TokenEnd(q, i)
                    from == IF q[i] = "-" THEN i + 1 ELSE i
                    colons == {m \in from..j : q[m] = ":"}
                IN  colons # {} =>
                      LET c == CHOOSE m \in colons : \A n \in colons : m <= n
                      IN  /\ query.terms[k].tag_type = SubSeq(q, from, c - 1)
                          /\ query.terms[k].tag_name = StoredName(SubSeq(q, c + 1, j))
          /\ q = Q_genre_scifi =>
                query = TagQuery(<<TagTerm(S_scifi, S_genre, FALSE)>>, "AND")
          /\ q = Q_not_genre_scifi =>
                query = TagQuery(<<TagTerm(S_scifi, S_genre, TRUE)>>, "AND")

C3_Witness ==
    /\ Parsed(1)
    /\ req[1].expression = Q_not_genre_scifi
    /\ req[1].query.terms[1].tag_type = S_genre
    /\ req[1].query.terms[1].exclude

\* q is one term of the grammar whose tag name is a quoted string:
\* an optional '-', an optional type of letters and digits with its colon,
\* and one quoted string, which starts at position i
QuotedTermAt(q, i) ==
    /\ {k \in DOMAIN q : q[k] = Quote} = {i, Len(q)}
    /\ i + 1 < Len(q)
    /\ LET from == IF i > 1 /\ q[1] = "-" THEN 2 ELSE 1
       IN  \/ from = i
           \/ /\ from < i - 1
              /\ q[i - 1] = ":"
              /\ \A k \in from..(i - 2) : q[k] \in AlnumChars

\* C4: a quoted string is one tag name: a term written as a quoted string
\* parses to exactly one TagTerm whose tag_name is the normalized
\* (alias-resolved) quoted content; the two quoted authors joined by OR
\* give an OR-query of the author terms gene_wolfe and ursula_le_guin
C4_QuotedIsOneName ==
    LET q == req[1].expression
        query == req[1].query
    IN  Parsed(1) =>
          /\ \A i \in DOMAIN q :
                QuotedTermAt(q, i) =>
                  /\ Len(query.terms) = 1
                  /\ query.terms[1].kind = "TagTerm"
                  /\ query.terms[1].tag_name
                        = StoredName(SubSeq(q, i + 1, Len(q) - 1))
          /\ q = Q_two_authors =>
                query = TagQuery(<<TagTerm(S_gene_wolfe, S_author, FALSE),
                                   TagTerm(S_ursula_le_guin, S_author, FALSE)>>,
                                 "OR")

\* the book is associated to the tag that the name stands for
BookHas(b, raw) ==
    \E t \in tags : <<b, t.id>> \in book_tags /\ t.name = StoredName(raw)

\* C5: AND binds tighter than OR: "a b OR c" selects the books with
\* (a and b) or c, "a OR b c" the books with a or (b and c)
C5_AndBindsTighter ==
    req[1].pc = "done" =>
        /\ req[1].expression = Q_a_b_or_c =>
              req[1].result = {b \in books : \/ BookHas(b, S_a) /\ BookHas(b, S_b)
                                             \/ BookHas(b, S_c)}
        /\ req[1].expression = Q_a_or_b_c =>
              req[1].result = {b \in books : \/ BookHas(b, S_a)
                                             \/ BookHas(b, S_b) /\ BookHas(b, S_c)}

C5_Witness ==
    /\ req[1].pc = "done"
    /\ InCatalog(CatLetters)
    /\ req[1].expression = Q_a_b_or_c
    /\ req[1].result = {4, 5, 6, 7, 8}

RECURSIVE TermsOf(_)
\* the TagTerms that occur in a query
TermsOf(node) ==
    IF node.kind = "TagTerm" THEN {node}
    ELSE UNION {TermsOf(node.terms[k]) : k \in DOMAIN node.terms}

\* the books selected by the filter compiled from one term
TermBooks(term) == Execute(<<build_tag_filter(term)>>, tags, book_tags, books)

\* C6: the filter of a term with exclude set selects the complement, within
\* the catalog, of the filter of the same term without exclude; a book
\* without any tag is selected by every exclude term
C6_ExcludeIsComplement ==
    Parsed(1) =>
        \A term \in TermsOf(req[1].query) :
            LET excluded == TermBooks([term EXCEPT !.exclude = TRUE])
                included == TermBooks([term EXCEPT !.exclude = FALSE])
            IN  /\ excluded = books \ included
                /\ \A b \in books :
                      (\A t \in tags : <<b, t.id>> \notin book_tags)
                          => b \in excluded

C6_Witness ==
    /\ Parsed(1)
    /\ InCatalog(CatLetters)
    /\ \E term \in TermsOf(req[1].query) :
          /\ term.exclude
          /\ TermBooks(term) = {1, 2, 5, 6, 9}

\* C7: empty or whitespace-only input parses to the AND-query without
\* terms, the book query is returned unmodified, and every book matches
C7_BlankMatchesAll ==
    (\A i \in DOMAIN req[1].expression : req[1].expression[i] \in Whitespace) =>
        /\ Parsed(1) => req[1].query = TagQuery(<< >>, "AND")
        /\ req[1].pc \in {"execute", "done"} => req[1].book_query = << >>
        /\ req[1].pc = "done" => req[1].result = books

C7_Witness ==
    /\ req[1].pc = "done"
    /\ req[1].expression = Q_blank
    /\ books # {}
    /\ req[1].result = books

\* C8: resolve_alias gives the canonical tag's name when the normalized
\* input is a stored alias and the normalized input otherwise: with sci_fi
\* an alias of science_fiction, "Sci-Fi", "sci fi" and "SCI_FI" resolve to
\* science_fiction, and unknown_term resolves to itself
C8_ResolveAlias ==
    parser[1].cache_set =>
        /\ \A raw \in {Q_Sci_Fi, Q_sci_fi_spaced, Q_SCI_FI, S_unknown_term,
                       S_a, S_b, S_d, <<"D">>, <<"-", "b", " ">>, << >>} :
              resolve_alias(raw, parser[1].aliases_cache) = StoredName(raw)
        /\ InCatalog(CatLetters) =>
              \A raw \in {Q_Sci_Fi, Q_sci_fi_spaced, Q_SCI_FI} :
                  resolve_alias(raw, parser[1].aliases_cache) = S_science_fiction
        /\ resolve_alias(S_unknown_term, parser[1].aliases_cache) = S_unknown_term

C8_Witness ==
    /\ parser[1].cache_set
    /\ InCatalog(CatLetters)
    /\ resolve_alias(Q_Sci_Fi, parser[1].aliases_cache) = S_science_fiction
    /\ resolve_alias(S_a, parser[1].aliases_cache) = S_a

\* a parse result in its declared shape: a TagQuery of TagTerms and of
\* TagQuerys of TagTerms, names being strings over [a-z0-9_]
IsTagTerm(node) ==
    /\ node.kind = "TagTerm"
    /\ \A i \in DOMAIN node.tag_name : node.tag_name[i] \in TagChars
    /\ node.exclude \in BOOLEAN

IsTagQuery(node) ==
    /\ node.kind = "TagQuery"
    /\ node.operator \in {"AND", "OR"}
    /\ \A k \in DOMAIN node.terms :
          \/ IsTagTerm(node.terms[k])
          \/ /\ node.terms[k].kind = "TagQuery"
             /\ node.terms[k].operator \in {"AND", "OR"}
             /\ \A m \in DOMAIN node.terms[k].terms :
                   IsTagTerm(node.terms[k].terms[m])

\* C10: parse and build_filter are total: whatever the query string, no
\* error is raised, parse returns a TagQuery and build_filter a book query
C10_Total ==
    /\ req[1].pc # "failed"
    /\ Parsed(1) => IsTagQuery(req[1].query)
    /\ req[1].pc \in {"execute", "done"} => Len(req[1].book_query) \in {0, 1}
    /\ req[1].pc = "done" => req[1].result \subseteq books

C10_Witness ==
    /\ req[1].pc = "done"
    /\ req[1].expression = T_quote \o <<" ">> \o T_dash
    /\ Len(req[1].query.terms) = 2

(***************************************************************************)
(* Tag and alias management (app/routers/tags.py).  A handler runs in its  *)
(* own session and is one transaction: it either commits all its writes or *)
(* ends with an HTTP error and no write.  Rows are numbered in the order   *)
(* of their insertion, which keeps the ids fresh as the sequences do.      *)
(***************************************************************************)
MaxCommits == 2

\* a commit ends the quiet of the requests under way
Disturbed == [r \in Requests |-> [req[r] EXCEPT !.quiet = FALSE]]

\* the normalized aliases a handler inserts for a tag named name
new_aliases(alias_names, name) ==
    SelectSeq([k \in DOMAIN alias_names |-> normalize_tag_name(alias_names[k])],
              LAMBDA normalized_alias : normalized_alias # name)

\* the unique index on tag_aliases.alias accepts the rows to insert
UniqueAliases(inserted, kept) ==
    /\ \A k, m \in DOMAIN inserted : inserted[k] = inserted[m] => k = m
    /\ \A k \in DOMAIN inserted : \A a \in kept : a.alias # inserted[k]

\* the TagAlias rows inserted for the tag tag_id
alias_rows(inserted, tag_id) ==
    {TagAlias(next_id.alias + k - 1, inserted[k], tag_id) : k \in DOMAIN inserted}

\* POST /tags/
create_tag(name, type, alias_names) ==
    LET normalized_name == normalize_tag_name(name)
        inserted == new_aliases(alias_names, normalized_name)
    IN  /\ commits < MaxCommits
        /\ TagsByName(normalized_name) = {}
        /\ UniqueAliases(inserted, aliases)
        /\ tags' = tags \cup {Tag(next_id.tag, normalized_name, type, 0)}
        /\ aliases' = aliases \cup alias_rows(inserted, next_id.tag)
        /\ next_id' = [next_id EXCEPT !.tag = @ + 1,
                                      !.alias = @ + Len(inserted)]
        /\ commits' = commits + 1
        /\ req' = Disturbed
        /\ UNCHANGED <<book_tags, books, parser>>

\* PATCH /tags/{tag_id}
update_tag(tag_id, type, alias_names) ==
    \E tag \in TagsById(tag_id) :
        LET inserted == new_aliases(alias_names, tag.name)
            kept == IF alias_names # << >>
                    THEN {a \in aliases : a.canonical_tag_id # tag_id}
                    ELSE aliases
        IN  /\ commits < MaxCommits
            /\ UniqueAliases(inserted, kept)
            /\ tags' = (tags \ {tag})
                          \cup {[tag EXCEPT !.type = IF type # << >> THEN type
                                                     ELSE @]}
            /\ aliases' = kept \cup alias_rows(inserted, tag_id)
            /\ next_id' = [next_id EXCEPT !.alias = @ + Len(inserted)]
            /\ commits' = commits + 1
            /\ req' = Disturbed
            /\ UNCHANGED <<book_tags, books, parser>>

\* DELETE /tags/{tag_id} that leaves the aliases of the tag behind
delete_tag_keep_aliases(tag_id) ==
    \E tag \in TagsById(tag_id) :
        /\ commits < MaxCommits
        /\ tags' = tags \ {tag}
        /\ book_tags' = {bt \in book_tags : bt[2] # tag_id}
        /\ commits' = commits + 1
        /\ req' = Disturbed
        /\ UNCHANGED <<aliases, books, next_id, parser>>

\* DELETE /tags/{tag_id}: the aliases go with the tag (cascade), and so do
\* its rows of book_tags
delete_tag(tag_id) ==
    \E tag \in TagsById(tag_id) :
        /\ commits < MaxCommits
        /\ tags' = tags \ {tag}
        /\ aliases' = {a \in aliases : a.canonical_tag_id # tag_id}
        /\ book_tags' = {bt \in book_tags : bt[2] # tag_id}
        /\ commits' = commits + 1
        /\ req' = Disturbed
        /\ UNCHANGED <<books, next_id, parser>>

\* POST /tags/{tag_id}/aliases
create_tag_alias(tag_id, alias) ==
    LET normalized_alias == normalize_tag_name(alias)
    IN  /\ commits < MaxCommits
        /\ TagsById(tag_id) # {}
        /\ \A a \in aliases : a.alias # normalized_alias
        /\ aliases' = aliases \cup {TagAlias(next_id.alias, normalized_alias, tag_id)}
        /\ next_id' = [next_id EXCEPT !.alias = @ + 1]
        /\ commits' = commits + 1
        /\ req' = Disturbed
        /\ UNCHANGED <<tags, book_tags, books, parser>>

\* DELETE /tags/aliases/{alias_id}
delete_tag_alias(alias_id) ==
    \E alias \in {a \in aliases : a.id = alias_id} :
        /\ commits < MaxCommits
        /\ aliases' = aliases \ {alias}
        /\ commits' = commits + 1
        /\ req' = Disturbed
        /\ UNCHANGED <<tags, book_tags, books, next_id, parser>>

(***************************************************************************)
(* Spec: searches interleaved with tag and alias management                *)
(***************************************************************************)
\* the database as created: no row in any table
CatEmpty == [tags |-> {}, aliases |-> {}, book_tags |-> {}, books |-> {}]

Init ==
    /\ \E cat \in {CatEmpty, CatSmall} :
          /\ tags = cat.tags
          /\ aliases = cat.aliases
          /\ book_tags = cat.book_tags
          /\ books = cat.books
          /\ next_id = [tag |-> Cardinality(cat.tags) + 1,
                        alias |-> Cardinality(cat.aliases) + 1]
    /\ commits = 0
    /\ parser = [r \in Requests |-> FreshParser]
    /\ req = [r \in Requests |-> IdleRequest]

\* what the clients send
NameInputs == {<<"A">>, S_d}

TypeInputs == {<< >>, S_t}

AliasInputs == {<<"B">>, S_a}

AliasListInputs == {<< >>, <<<<"B">>>>}

SearchInputs == {<<"D", " ", "-", "b">>}

TagIds == 1..3

AliasIds == 1..3

Next ==
    \/ \E r \in Requests, expression \in SearchInputs : SearchStart(r, expression)
    \/ \E r \in Requests : ReadAliasRecords(r)
    \/ \E r \in Requests : LookupCanonical(r)
    \/ \E r \in Requests : SearchParse(r)
    \/ \E r \in Requests : SearchBuild(r)
    \/ \E r \in Requests : SearchExecute(r)
    \/ \E r \in Requests : SearchEnd(r)
    \/ \E name \in NameInputs, type \in TypeInputs \ {<< >>},
          alias_names \in AliasListInputs : create_tag(name, type, alias_names)
    \/ \E tag_id \in TagIds, type \in TypeInputs,
          alias_names \in AliasListInputs : update_tag(tag_id, type, alias_names)
    \/ \E tag_id \in TagIds : delete_tag(tag_id)
    \/ \E tag_id \in TagIds, alias \in AliasInputs : create_tag_alias(tag_id, alias)
    \/ \E alias_id \in AliasIds : delete_tag_alias(alias_id)

Spec == Init /\ [][Next]_vars

\* C9: every search works with a parser of its own: a search that has
\* started and has not yet read the alias table holds no alias map of an
\* earlier search, so that the alias changes committed before its start are
\* reflected: when nothing is committed while the search runs, its names
\* are resolved with the alias map as stored
C9_FreshParserPerSearch ==
    \A r \in Requests :
        /\ req[r].pc = "parse"
              => ~ parser[r].cache_set /\ parser[r].aliases_cache = << >>
        /\ (req[r].pc = "load" /\ req[r].quiet)
              => parser[r].alias_records \subseteq aliases
        /\ (Parsed(r) /\ req[r].quiet)
              => req[r].query = parse(req[r].expression, StoredAliasMap)

C9_Witness ==
    \E r \in Requests :
        /\ Parsed(r)
        /\ req[r].quiet
        /\ commits = 2
        /\ req[r].expression = <<"D", " ", "-", "b">>
        /\ \E a \in aliases : a.alias = S_b /\ a.canonical_tag_id = 2
        /\ req[r].query = TagQuery(<<TagTerm(S_d, None, FALSE),
                                     TagTerm(S_c, None, TRUE)>>, "AND")

(***************************************************************************)
(* StoreFailSpec: one search of get_books against a store that can fail    *)
(***************************************************************************)
\* the dictionary under construction assigned to the cache on the way out
kept_partial_load(previous) == [previous EXCEPT !.cache_set = TRUE,
                                                !.alias_records = {}]

\* the parser after an exception has left _load_aliases: the dictionary
\* under construction was a local, self._aliases_cache was not assigned
after_failed_load(previous) == FreshParser

\* db.query(TagAlias).all() or db.query(Tag).get(...) raises inside
\* apply_tag_filter; get_books catches it and filters with the text search
LoadAliasesFails(r) ==
    /\ \/ /\ req[r].pc = "parse"
          /\ ~ parser[r].cache_set
          /\ NeedsAliases(req[r].expression)
       \/ req[r].pc = "load"
    /\ parser' = [parser EXCEPT ![r] = after_failed_load(@)]
    /\ req' = [req EXCEPT
                  ![r].book_query = <<text_search_filter(req[r].expression)>>,
                  ![r].pc = "execute"]
    /\ UNCHANGED <<tags, aliases, book_tags, books, next_id, commits>>

\* the query of the response raises: the exception leaves get_books
SearchExecuteFails(r) ==
    /\ req[r].pc = "execute"
    /\ req' = [req EXCEPT ![r].pc = "failed"]
    /\ UNCHANGED <<tags, aliases, book_tags, books, next_id, commits, parser>>

FNext ==
    \/ /\ req[1].pc = "idle"
       /\ \E search \in {q \in QueriesFor(tags) :
                              q # << >> /\ is_tag_expression(q)} :
             SearchStart(1, search)
    \/ ReadAliasRecords(1)
    \/ LookupCanonical(1)
    \/ SearchParse(1)
    \/ SearchBuild(1)
    \/ SearchExecute(1)
    \/ LoadAliasesFails(1)
    \/ SearchExecuteFails(1)

StoreFailSpec == QInit /\ [][FNext]_vars

\* s occurs in text, letters compared without regard to case
ContainsNoCase(text, s) ==
    \E i \in 0..(Len(text) - Len(s)) :
        \A k \in DOMAIN s : Lower(text)[i + k] = Lower(s)[k]

\* the request filters with the text search
FellBack(r) ==
    /\ Len(req[r].book_query) = 1
    /\ req[r].book_query[1].op = "ilike"

\* C11: a store failure while the alias map is loaded is not caught by
\* parse and leaves apply_tag_filter; the parser's cache stays unset and
\* nothing of the map under construction is kept; get_books goes on with
\* the substring search over title, author names and tag names in place of
\* an error
C11_LoadFailureFallsBack ==
    /\ [][(req[1].pc \in {"parse", "load"}
             /\ req'[1].pc \notin {"parse", "load", "build"})
           => /\ req'[1].pc = "execute"
              /\ req'[1].query = IdleRequest.query
              /\ req'[1].book_query = <<text_search_filter(req[1].expression)>>
              /\ ~ parser'[1].cache_set
              /\ parser'[1].aliases_cache = << >>
              /\ parser'[1].alias_records = {}]_vars
    /\ [](FellBack(1) =>
            /\ ~ parser[1].cache_set /\ parser[1].aliases_cache = << >>
            /\ (req[1].pc = "done"
                  /\ \A i \in DOMAIN req[1].expression :
                        req[1].expression[i] \notin {"_", "%", "\\"})
               => req[1].result =
                    {b \in books :
                       \/ ContainsNoCase(BookTitle(b), req[1].expression)
                       \/ \E name \in BookAuthors(b) :
                             ContainsNoCase(name, req[1].expression)
                       \/ \E t \in tags : /\ <<b, t.id>> \in book_tags
                                          /\ ContainsNoCase(t.name, req[1].expression)})

C11_Witness ==
    /\ req[1].pc = "done"
    /\ FellBack(1)
    /\ InCatalog(CatLetters)
    /\ req[1].expression = T_d
    /\ ~ parser[1].cache_set
    /\ req[1].result = {1, 4}

(***************************************************************************)
(* NormSpec: calls of normalize_tag_name and is_valid_tag_name on every    *)
(* string of at most MaxNameLen characters of NameAlphabet and on the      *)
(* documented names                                                        *)
(***************************************************************************)
MaxNameLen == 3

NameAlphabet == {"A", "b", "1", "_", "-", " ", "/", "&"}

\* 'Science Fiction', 'Action/Adventure', 'sci-fi', 'space  opera',
\* 'Mystery & Thriller', 'LGBTQ+', 'A1'
N_Science_Fiction ==
    <<"S","c","i","e","n","c","e"," ","F","i","c","t","i","o","n">>
N_Action_Adventure ==
    <<"A","c","t","i","o","n","/","A","d","v","e","n","t","u","r","e">>
N_sci_fi == <<"s","c","i","-","f","i">>
N_space_opera == <<"s","p","a","c","e"," "," ","o","p","e","r","a">>
N_Mystery_Thriller ==
    <<"M","y","s","t","e","r","y"," ","&"," ","T","h","r","i","l","l","e","r">>
N_LGBTQ == <<"L","G","B","T","Q","+">>
N_A1 == <<"A","1">>

S_action_adventure ==
    <<"a","c","t","i","o","n","_","a","d","v","e","n","t","u","r","e">>
S_space_opera == <<"s","p","a","c","e","_","o","p","e","r","a">>
S_mystery_thriller ==
    <<"m","y","s","t","e","r","y","_","t","h","r","i","l","l","e","r">>
S_lgbtq == <<"l","g","b","t","q">>

RawNames ==
    UNION {[1..n -> NameAlphabet] : n \in 0..MaxNameLen}
      \cup {N_Science_Fiction, N_Action_Adventure, N_sci_fi, N_space_opera,
            N_Mystery_Thriller, N_LGBTQ, N_A1}

\* a call under way: its argument and what came back so far
NameCall(raw_name) ==
    [pc |-> "called", raw_name |-> raw_name, normalized |-> << >>,
     again |-> << >>, valid |-> FALSE]

NInit ==
    /\ tags = {} /\ aliases = {} /\ book_tags = {} /\ books = {}
    /\ next_id = [tag |-> 1, alias |-> 1]
    /\ commits = 0
    /\ parser = [r \in Requests |-> FreshParser]
    /\ \E raw_name \in RawNames : req = [r \in Requests |-> NameCall(raw_name)]

\* normalized = normalize_tag_name(raw_name)
NormalizeCall ==
    /\ req[1].pc = "called"
    /\ req' = [req EXCEPT ![1].normalized = normalize_tag_name(req[1].raw_name),
                          ![1].pc = "normalized"]
    /\ UNCHANGED <<tags, aliases, book_tags, books, next_id, commits, parser>>

\* normalize_tag_name(normalized)
NormalizeAgainCall ==
    /\ req[1].pc = "normalized"
    /\ req' = [req EXCEPT ![1].again = normalize_tag_name(req[1].normalized),
                          ![1].pc = "again"]
    /\ UNCHANGED <<tags, aliases, book_tags, books, next_id, commits, parser>>

\* is_valid_tag_name(raw_name)
IsValidCall ==
    /\ req[1].pc = "again"
    /\ req' = [req EXCEPT ![1].valid = is_valid_tag_name(req[1].raw_name),
                          ![1].pc = "returned"]
    /\ UNCHANGED <<tags, aliases, book_tags, books, next_id, commits, parser>>

NNext == NormalizeCall \/ NormalizeAgainCall \/ IsValidCall

NormSpec == NInit /\ [][NNext]_vars

\* C12: normalize_tag_name is idempotent: normalizing a normalized name
\* gives the same name
C12_NormalizeIdempotent ==
    req[1].pc \in {"again", "returned"} => req[1].again = req[1].normalized

C12_Witness ==
    /\ req[1].pc = "again"
    /\ req[1].raw_name = <<"&", "-", "A">>
    /\ req[1].normalized = <<"a">>
    /\ req[1].again = <<"a">>

\* the six steps of the documentation, each on its own
StepLower(x) == [i \in DOMAIN x |-> LowerChar(x[i])]

StepSlash(x) == [i \in DOMAIN x |-> IF x[i] = "/" THEN "_" ELSE x[i]]

StepHyphenSpace(x) == [i \in DOMAIN x |-> IF x[i] \in {"-", " "} THEN "_" ELSE x[i]]

RECURSIVE StepDelete(_)
StepDelete(x) ==
    IF x = << >> THEN << >>
    ELSE IF Head(x) \in Range(LowerSeq) \cup Range(Digits) \cup {"_"}
         THEN <<Head(x)>> \o StepDelete(Tail(x))
         ELSE StepDelete(Tail(x))

RECURSIVE StepCollapse(_)
StepCollapse(x) ==
    IF Len(x) < 2 THEN x
    ELSE IF x[1] = "_" /\ x[2] = "_" THEN StepCollapse(Tail(x))
         ELSE <<Head(x)>> \o StepCollapse(Tail(x))

RECURSIVE StepTrim(_)
StepTrim(x) ==
    IF x = << >> THEN x
    ELSE IF x[1] = "_" THEN StepTrim(Tail(x))
         ELSE IF x[Len(x)] = "_" THEN StepTrim(SubSeq(x, 1, Len(x) - 1))
              ELSE x

\* C13: normalize_tag_name(x) is x lowercased, with '/' and then '-' and
\* space replaced by '_', the characters outside [a-z0-9_] deleted, the
\* runs of '_' collapsed and the '_' at both ends trimmed, in this order;
\* the documented names give the documented results, punctuation leaves no
\* separator and the empty string gives the empty string
C13_NormalizeSteps ==
    req[1].pc # "called" =>
        LET x == req[1].raw_name
            y == req[1].normalized
        IN  /\ y = StepTrim(StepCollapse(StepDelete(StepHyphenSpace(
                      StepSlash(StepLower(x))))))
            /\ x = N_Science_Fiction => y = S_science_fiction
            /\ x = N_Action_Adventure => y = S_action_adventure
            /\ x = N_sci_fi => y = S_sci_fi
            /\ x = N_space_opera => y = S_space_opera
            /\ x = N_LGBTQ => y = S_lgbtq
            /\ x = <<"A", "&", "b">> => y = <<"a", "b">>
            /\ x = << >> => y = << >>

C13_Witness ==
    /\ req[1].pc = "normalized"
    /\ req[1].raw_name = N_Mystery_Thriller
    /\ req[1].normalized = S_mystery_thriller

\* C14: is_valid_tag_name(raw) is true exactly when normalize(raw) has at
\* least 2 characters, one of them of [a-z0-9]: 'a' is not valid, 'A1' is,
\* the empty and the punctuation-only names are not
C14_ValidIffNormalizedLongEnough ==
    req[1].pc = "returned" =>
        LET x == req[1].raw_name
            y == req[1].normalized
        IN  /\ req[1].valid <=>
                  /\ Len(y) >= 2
                  /\ \E i \in DOMAIN y :
                        y[i] \in Range(LowerSeq) \cup Range(Digits)
            /\ x = <<"A">> => ~ req[1].valid
            /\ x = N_A1 => req[1].valid
            /\ x = << >> => ~ req[1].valid
            /\ (x # << >> /\ \A i \in DOMAIN x : x[i] \in {"&", "-", "_", "/", " "})
                  => ~ req[1].valid

C14_Witness ==
    /\ req[1].pc = "returned"
    /\ req[1].raw_name = N_A1
    /\ req[1].normalized = <<"a", "1">>
    /\ req[1].valid

\* 'OR' does not occur in q, in upper or lower case
NoOrSubstring(q) ==
    \A i \in 1..(Len(q) - 1) : ~ (q[i] \in {"o", "O"} /\ q[i + 1] \in {"r", "R"})

\* C15: the parse of a query string in which 'OR' does not occur, in any
\* case, has the operator AND
C15_NoOrGivesAnd ==
    (Parsed(1) /\ NoOrSubstring(req[1].expression))
        => req[1].query.operator = "AND"

C15_Witness ==
    /\ Parsed(1)
    /\ req[1].expression = Q_fantasy_not_romance
    /\ NoOrSubstring(req[1].expression)
    /\ req[1].query.operator = "AND"
    /\ Len(req[1].query.terms) = 2

(***************************************************************************)
(* Tagging books: metadata import (app/services/tag_import.py,             *)
(* app/services/library.py), bulk tagging and copying                      *)
(* (app/routers/tags.py), book updates and deletions                       *)
(* (app/routers/books.py), AI tag approval (app/routers/ai.py) and         *)
(* duplicate resolution (app/routers/duplicates.py).  A handler works on   *)
(* the store within its transaction: a statement that violates a unique    *)
(* index raises, the handler ends with that error and nothing is written.  *)
(***************************************************************************)
S_series == <<"s","e","r","i","e","s">>

S_language == <<"l","a","n","g","u","a","g","e">>

S_format == <<"f","o","r","m","a","t">>

\* the tables as the handler's session sees them, and the error raised
Store ==
    [tags |-> tags, book_tags |-> book_tags, next_tag |-> next_id.tag,
     error |-> ""]

\* db.add(Tag(...)); db.flush(): tags.name is unique
insert_tag(st, name, type) ==
    IF st.error # "" THEN st
    ELSE IF \E t \in st.tags : t.name = name
    THEN [st EXCEPT !.error = "tags_name_key"]
    ELSE [st EXCEPT !.tags = @ \cup {Tag(st.next_tag, name, type, 0)},
                    !.next_tag = @ + 1]

\* a row inserted into book_tags: (book_id, tag_id) is the primary key
insert_book_tag(st, book_id, tag_id) ==
    IF st.error # "" THEN st
    ELSE IF <<book_id, tag_id>> \in st.book_tags
    THEN [st EXCEPT !.error = "book_tags_pkey"]
    ELSE [st EXCEPT !.book_tags = @ \cup {<<book_id, tag_id>>}]

\* tag.usage_count = count
set_usage_count(st, tag_id, count) ==
    [st EXCEPT !.tags = {IF t.id = tag_id THEN [t EXCEPT !.usage_count = count]
                         ELSE t : t \in @}]

\* tag.usage_count of a stored tag
usage_count_of(st, tag_id) ==
    (CHOOSE t \in st.tags : t.id = tag_id).usage_count

\* {t.id for t in book.tags}
tag_ids_of(rows, book_id) == {bt[2] : bt \in {x \in rows : x[1] = book_id}}

\* the elements of a set of ids in ascending order
RECURSIVE SortedIds(_)
SortedIds(ids) ==
    IF ids = {} THEN << >>
    ELSE LET least == CHOOSE i \in ids : \A j \in ids : i <= j
         IN  <<least>> \o SortedIds(ids \ {least})

\* the metadata extracted from a book file, as far as tags are made of it
Metadata(authors, subjects, series, language, format, publisher) ==
    [authors |-> authors, tags |-> subjects, series |-> series,
     language |-> language, format |-> format, publisher |-> publisher]

\* the values process_metadata_to_tags hands to get_or_create_tag, in its
\* order, each with the tag type of its field
MetadataValues(metadata) ==
    [k \in DOMAIN metadata.authors |-> <<metadata.authors[k], S_author>>]
    \o [k \in DOMAIN metadata.tags |-> <<metadata.tags[k], S_genre>>]
    \o (IF Truthy(metadata.series)
        THEN <<<<metadata.series, S_series>>>> ELSE << >>)
    \o (IF Truthy(metadata.language)
        THEN <<<<metadata.language, S_language>>>> ELSE << >>)
    \o (IF Truthy(metadata.format)
        THEN <<<<metadata.format, S_format>>>> ELSE << >>)
    \o (IF Truthy(metadata.publisher)
        THEN <<<<metadata.publisher, S_meta>>>> ELSE << >>)

\* TagImportService.get_or_create_tag: the store after the call and the id
\* of the tag returned, 0 for None
get_or_create_tag(st, raw_name, tag_type) ==
    IF ~Truthy(raw_name) \/ ~is_valid_tag_name(raw_name)
    THEN [st |-> st, tag |-> 0]
    ELSE LET normalized_name == normalize_tag_name(raw_name)
             found == {t \in st.tags : /\ t.name = normalized_name
                                       /\ t.type = tag_type}
         IN  IF found # {}
             THEN [st |-> st, tag |-> (CHOOSE t \in found : TRUE).id]
             ELSE [st |-> insert_tag(st, normalized_name, tag_type),
                   tag |-> st.next_tag]

\* the calls of get_or_create_tag for the values from the k-th on;
\* tags_to_add collects what they return
RECURSIVE get_or_create_all(_, _, _, _)
get_or_create_all(st, values, k, tags_to_add) ==
    IF k > Len(values) \/ st.error # ""
    THEN [st |-> st, tags_to_add |-> tags_to_add]
    ELSE LET got == get_or_create_tag(st, values[k][1], values[k][2])
         IN  get_or_create_all(got.st, values, k + 1,
                               Append(tags_to_add, got.tag))

\* final_tags: None and the tags seen before are dropped
final_tags_of(tags_to_add) ==
    SelectSeq([k \in DOMAIN tags_to_add |->
                  IF /\ tags_to_add[k] # 0
                     /\ \A j \in 1..(k - 1) : tags_to_add[j] # tags_to_add[k]
                  THEN tags_to_add[k] ELSE 0],
              LAMBDA tag_id : tag_id # 0)

\* the import appends the tag whatever the book carries
not_in_current(tag_id, current_tag_ids) == TRUE

\* tag.id not in current_tag_ids
not_in(tag_id, current_tag_ids) == tag_id \notin current_tag_ids

\* book.tags.append(tag) and the usage count, for the final tags from
\* the k-th on
RECURSIVE append_tags(_, _, _, _, _)
append_tags(st, book_id, final_tags, k, current_tag_ids) ==
    IF k > Len(final_tags) \/ st.error # "" THEN st
    ELSE LET tag_id == final_tags[k]
         IN  append_tags(
                 IF not_in(tag_id, current_tag_ids)
                 THEN set_usage_count(insert_book_tag(st, book_id, tag_id),
                                      tag_id, usage_count_of(st, tag_id) + 1)
                 ELSE st,
                 book_id, final_tags, k + 1, current_tag_ids)

\* TagImportService.process_metadata_to_tags on the store st: the store
\* after the flush and the list returned
process_metadata(st, book_exists, book_id, metadata) ==
    IF ~book_exists THEN [st |-> st, final_tags |-> << >>]
    ELSE LET got == get_or_create_all(st, MetadataValues(metadata), 1, << >>)
             final_tags == final_tags_of(got.tags_to_add)
             current_tag_ids == tag_ids_of(got.st.book_tags, book_id)
         IN  [st |-> append_tags(got.st, book_id, final_tags, 1,
                                 current_tag_ids),
              final_tags |-> final_tags]

\* db.query(Tag).filter(Tag.name == name).first(), and the Tag added and
\* flushed when there is none and the handler creates tags; 0 for no tag
tag_named(st, name, type, create) ==
    LET found == {t \in st.tags : t.name = name}
    IN  IF found # {}
        THEN [st |-> st, tag |-> (CHOOSE t \in found : TRUE).id]
        ELSE IF create
        THEN [st |-> insert_tag(st, name, type), tag |-> st.next_tag]
        ELSE [st |-> st, tag |-> 0]

\* for book in books: for tag in tags, as one list of (book, tag)
Pairs(book_ids, tag_ids) ==
    [i \in 1..(Len(book_ids) * Len(tag_ids)) |->
        <<book_ids[((i - 1) \div Len(tag_ids)) + 1],
          tag_ids[((i - 1) % Len(tag_ids)) + 1]>>]

\* the row inserted and the usage count raised where the book does not
\* carry the tag yet, for the pairs from the k-th on
RECURSIVE add_rows(_, _, _)
add_rows(st, pairs, k) ==
    IF k > Len(pairs) \/ st.error # "" THEN st
    ELSE LET book_id == pairs[k][1]
             tag_id == pairs[k][2]
             existing == <<book_id, tag_id>> \in st.book_tags
         IN  add_rows(
                 IF ~existing
                 THEN set_usage_count(insert_book_tag(st, book_id, tag_id),
                                      tag_id, usage_count_of(st, tag_id) + 1)
                 ELSE st,
                 pairs, k + 1)

\* max(0, n)
Max0(n) == IF n < 0 THEN 0 ELSE n

\* the row deleted and the usage count lowered where a row was deleted
RECURSIVE remove_rows(_, _, _)
remove_rows(st, pairs, k) ==
    IF k > Len(pairs) THEN st
    ELSE LET book_id == pairs[k][1]
             tag_id == pairs[k][2]
             rowcount == IF <<book_id, tag_id>> \in st.book_tags THEN 1 ELSE 0
             deleted == [st EXCEPT !.book_tags = @ \ {<<book_id, tag_id>>}]
         IN  remove_rows(
                 IF rowcount > 0
                 THEN set_usage_count(deleted, tag_id,
                                      Max0(usage_count_of(st, tag_id) - 1))
                 ELSE deleted,
                 pairs, k + 1)

\* bulk_tag_books, "Get or create tags": the names are normalized, a
\* missing tag is created with type meta when tags are added and skipped
\* when they are removed
RECURSIVE bulk_tags(_, _, _, _, _)
bulk_tags(st, tag_names, k, operation, found) ==
    IF k > Len(tag_names) \/ st.error # "" THEN [st |-> st, tags |-> found]
    ELSE LET normalized_name == normalize_tag_name(tag_names[k])
             got == tag_named(st, normalized_name, S_meta, operation = "add")
         IN  bulk_tags(got.st, tag_names, k + 1, operation,
                       IF got.tag # 0 THEN Append(found, got.tag) ELSE found)

\* bulk_tag_books on the store
bulk_tag(st, book_ids, tag_names, operation) ==
    LET found_books == SortedIds({b \in books : \E k \in DOMAIN book_ids :
                                                    book_ids[k] = b})
        got == bulk_tags(st, tag_names, 1, operation, << >>)
        pairs == Pairs(found_books, got.tags)
    IN  IF operation = "add" THEN add_rows(got.st, pairs, 1)
        ELSE remove_rows(got.st, pairs, 1)

\* copy_tags_between_books on the store
copy_tags(st, source_book_id, target_book_id) ==
    add_rows(st,
             Pairs(<<target_book_id>>,
                   SortedIds(tag_ids_of(st.book_tags, source_book_id))),
             1)

\* a tag suggested for a book
SuggestedTag(name, type) == [name |-> name, type |-> type]

\* _apply_tags_to_book, "Clear existing tags if not merging"
clear_tags(st, book_id) ==
    LET carried == tag_ids_of(st.book_tags, book_id)
    IN  [st EXCEPT
            !.tags = {IF t.id \in carried /\ t.usage_count > 0
                      THEN [t EXCEPT !.usage_count = @ - 1] ELSE t : t \in @},
            !.book_tags = {bt \in @ : bt[1] # book_id}]

\* _apply_tags_to_book, "Apply each suggested tag": the name is looked up
\* and stored as it was sent
RECURSIVE apply_suggested(_, _, _, _)
apply_suggested(st, book_id, suggested_tags, k) ==
    IF k > Len(suggested_tags) \/ st.error # "" THEN st
    ELSE LET tag_dict == suggested_tags[k]
             got == tag_named(st, tag_dict.name, tag_dict.type, TRUE)
         IN  apply_suggested(add_rows(got.st, <<<<book_id, got.tag>>>>, 1),
                             book_id, suggested_tags, k + 1)

\* _apply_tags_to_book on the store
apply_tags_to_book(st, book_id, suggested_tags, merge_existing) ==
    apply_suggested(IF merge_existing THEN st ELSE clear_tags(st, book_id),
                    book_id, suggested_tags, 1)

\* update_book, the loop over update_data["tags"]: the name is looked up
\* and stored as it was sent, a new Tag gets the default type meta
RECURSIVE named_tags(_, _, _, _)
named_tags(st, tag_names, k, found) ==
    IF k > Len(tag_names) \/ st.error # "" THEN [st |-> st, tags |-> found]
    ELSE LET got == tag_named(st, tag_names[k], S_meta, TRUE)
         IN  named_tags(got.st, tag_names, k + 1, found \cup {got.tag})

\* update_book with a tags list, on the store
update_book_tags(st, book_id, tag_names) ==
    LET old_tags == tag_ids_of(st.book_tags, book_id)
        got == named_tags(st, tag_names, 1, {})
        new_tags == got.tags
        added_tags == new_tags \ old_tags
        removed_tags == old_tags \ new_tags
    IN  [got.st EXCEPT
            !.tags = {IF t.id \in added_tags
                      THEN [t EXCEPT !.usage_count = @ + 1]
                      ELSE IF t.id \in removed_tags
                      THEN [t EXCEPT !.usage_count = Max0(@ - 1)]
                      ELSE t : t \in @},
            !.book_tags = {bt \in @ : bt[1] # book_id}
                              \cup {<<book_id, tag_id>> : tag_id \in new_tags}]

\* db.delete(book) for each book: the rows of book_tags go with the book,
\* no tag is touched
delete_books(st, deleted) ==
    [st EXCEPT !.book_tags = {bt \in @ : bt[1] \notin deleted}]

\* how many times in a row the caller r has made this very call, the
\* present one included, with nothing else committed in between
Runs(r, op, input) ==
    IF /\ req[r].pc = "returned"
       /\ req[r].quiet
       /\ req[r].op = op
       /\ req[r].input = input
    THEN req[r].runs + 1 ELSE 1

\* what the caller r holds when a handler has ended: the call, what it
\* returned or the error it raised
Answer(op, input, st, result, runs) ==
    [pc |-> IF st.error = "" THEN "returned" ELSE "raised",
     quiet |-> TRUE, op |-> op, input |-> input, result |-> result,
     error |-> st.error, runs |-> IF st.error = "" THEN runs ELSE 0]

\* the answer of a handler that returns nothing of the catalog
Done(op, st) == Answer(op, << >>, st, << >>, 1)

\* db.commit() of the store st, or the rollback when the handler raised
Finish(r, st, answer) ==
    IF st.error = ""
    THEN /\ tags' = st.tags
         /\ book_tags' = st.book_tags
         /\ next_id' = [next_id EXCEPT !.tag = st.next_tag]
         /\ commits' = commits + 1
         /\ req' = [Disturbed EXCEPT ![r] = answer]
    ELSE /\ req' = [req EXCEPT ![r] = answer]
         /\ UNCHANGED <<tags, book_tags, next_id, commits>>

\* TagImportService.process_metadata_to_tags for a stored or a missing
\* book, committed by its caller
process_metadata_to_tags(r, book_id, metadata) ==
    LET out == process_metadata(Store, book_id \in books, book_id, metadata)
    IN  /\ commits < MaxCommits
        /\ Finish(r, out.st,
                  Answer("process_metadata_to_tags", <<book_id, metadata>>,
                         out.st, out.final_tags,
                         Runs(r, "process_metadata_to_tags",
                              <<book_id, metadata>>)))
        /\ UNCHANGED <<aliases, books, parser>>

\* import_book for a file not imported before: the Book is added and
\* flushed, its metadata are made tags, and all of it is committed
import_book(r, metadata) ==
    LET book_id == next_id.book
        out == process_metadata(Store, TRUE, book_id, metadata)
    IN  /\ commits < MaxCommits
        /\ IF out.st.error = ""
           THEN /\ tags' = out.st.tags
                /\ book_tags' = out.st.book_tags
                /\ books' = books \cup {book_id}
                /\ next_id' = [next_id EXCEPT !.tag = out.st.next_tag,
                                              !.book = @ + 1]
                /\ commits' = commits + 1
                /\ req' = [Disturbed EXCEPT
                              ![r] = Answer("import_book", metadata, out.st,
                                            out.final_tags, 1)]
           ELSE /\ req' = [req EXCEPT
                              ![r] = Answer("import_book", metadata, out.st,
                                            out.final_tags, 1)]
                /\ UNCHANGED <<tags, book_tags, books, next_id, commits>>
        /\ UNCHANGED <<aliases, parser>>

\* POST /tags/bulk-tag with operation add or remove
bulk_tag_books(r, book_ids, tag_names, operation) ==
    /\ commits < MaxCommits
    /\ operation \in {"add", "remove"}
    /\ LET st == bulk_tag(Store, book_ids, tag_names, operation)
       IN  Finish(r, st, Done("bulk_tag_books", st))
    /\ UNCHANGED <<aliases, books, parser>>

\* POST /tags/copy-tags/{source_book_id}/{target_book_id}
copy_tags_between_books(r, source_book_id, target_book_id) ==
    /\ commits < MaxCommits
    /\ source_book_id \in books
    /\ target_book_id \in books
    /\ LET st == copy_tags(Store, source_book_id, target_book_id)
       IN  Finish(r, st, Done("copy_tags_between_books", st))
    /\ UNCHANGED <<aliases, books, parser>>

\* POST /ai/tags/approve
approve_tags(r, book_id, suggested_tags, merge_existing) ==
    /\ commits < MaxCommits
    /\ book_id \in books
    /\ LET st == apply_tags_to_book(Store, book_id, suggested_tags,
                                    merge_existing)
       IN  Finish(r, st, Done("approve_tags", st))
    /\ UNCHANGED <<aliases, books, parser>>

\* PATCH /books/{book_id} with a tags list
update_book(r, book_id, tag_names) ==
    /\ commits < MaxCommits
    /\ book_id \in books
    /\ LET st == update_book_tags(Store, book_id, tag_names)
       IN  Finish(r, st, Done("update_book", st))
    /\ UNCHANGED <<aliases, books, parser>>

\* DELETE /books/bulk
bulk_delete_books(r, book_ids) ==
    LET deleted == {b \in books : \E k \in DOMAIN book_ids : book_ids[k] = b}
    IN  /\ commits < MaxCommits
        /\ LET st == delete_books(Store, deleted)
           IN  Finish(r, st, Done("bulk_delete_books", st))
        /\ books' = books \ deleted
        /\ UNCHANGED <<aliases, parser>>

\* Book.duplicate_of_id as import_book sets it: the first stored book of
\* the same title.  The flag is_duplicate is taken to stand as long as
\* that book is stored.
duplicate_of(book_id) ==
    {o \in books : /\ o < book_id
                   /\ BookTitle(o) = BookTitle(book_id)
                   /\ \A p \in books : BookTitle(p) = BookTitle(o) => o <= p}

\* POST /duplicates/{book_id}/resolve
resolve_duplicate(r, book_id, action) ==
    \E original_book \in duplicate_of(book_id) :
        LET deleted == CASE action = "keep_original" -> {book_id}
                         [] action = "keep_new" -> {original_book}
                         [] OTHER -> {}
        IN  /\ commits < MaxCommits
            /\ book_id \in books
            /\ LET st == delete_books(Store, deleted)
               IN  Finish(r, st, Done("resolve_duplicate", st))
            /\ books' = books \ deleted
            /\ UNCHANGED <<aliases, parser>>

(***************************************************************************)
(* TaggingSpec: the handlers that change tags and books, one after another *)
(***************************************************************************)
\* two files of one title imported, both with the subject a
CatDuplicate ==
    [tags      |-> {Tag(1, S_a, S_genre, 2)},
     aliases   |-> {},
     book_tags |-> {<<4, 1>>, <<5, 1>>},
     books     |-> {4, 5}]

\* the highest id of the rows given, 0 for none
MaxId(ids) ==
    IF ids = {} THEN 0
    ELSE CHOOSE i \in ids : \A j \in ids : j <= i

TInit ==
    /\ \E cat \in {CatEmpty, CatSmall, CatDuplicate} :
          /\ tags = cat.tags
          /\ aliases = cat.aliases
          /\ book_tags = cat.book_tags
          /\ books = cat.books
          /\ next_id = [tag |-> Cardinality(cat.tags) + 1,
                        alias |-> Cardinality(cat.aliases) + 1,
                        book |-> MaxId(cat.books) + 1]
    /\ commits = 0
    /\ parser = [r \in Requests |-> FreshParser]
    /\ req = [r \in Requests |-> IdleRequest]

\* the metadata of tests/test_tag_import.py
N_Stephen_King == <<"S","t","e","p","h","e","n"," ","K","i","n","g">>

N_Peter_Straub == <<"P","e","t","e","r"," ","S","t","r","a","u","b">>

N_Horror == <<"H","o","r","r","o","r">>

N_Dark_Fantasy == <<"D","a","r","k"," ","F","a","n","t","a","s","y">>

N_The_Talisman == <<"T","h","e"," ","T","a","l","i","s","m","a","n">>

N_en == <<"e","n">>

N_EPUB == <<"E","P","U","B">>

N_Viking == <<"V","i","k","i","n","g">>

MdTest ==
    Metadata(<<N_Stephen_King, N_Peter_Straub>>, <<N_Horror, N_Dark_Fantasy>>,
             N_The_Talisman, N_en, N_EPUB, N_Viking)

\* one word as an author and as a subject
MdAuthorSubject ==
    Metadata(<<<<"A", "b">>>>, <<<<"A", "B">>>>, None, None, None, None)

\* a subject given twice and a subject of one character
MdSubjects ==
    Metadata(<<<<"D", "e">>>>, <<<<"E", "e">>, <<"e", "e", " ">>, <<"!">>>>,
             None, << >>, None, None)

MetadataInputs == {MdTest, MdAuthorSubject, MdSubjects}

\* the metadata imported into a catalog: those of the test into a catalog
\* without tags or with the eight tags of the test, the short ones into any
MetadataFor(cat_tags) ==
    IF Cardinality(cat_tags) \in {0, 8} THEN MetadataInputs
    ELSE MetadataInputs \ {MdTest}

N_A_b == <<"A", " ", "b">>

BookInputs == {1, 4, 5}

BookListInputs == {<<1>>, <<4, 5>>}

TagListInputs == {<<<<"A">>, S_a>>, <<N_A_b>>}

SuggestedInputs ==
    {<<SuggestedTag(N_A_b, S_genre)>>,
     <<SuggestedTag(S_a, S_genre), SuggestedTag(S_a, S_genre)>>}

\* the handlers of this specification run one after another, for one caller
Callers == {1}

TNext ==
    \/ \E r \in Callers, metadata \in MetadataFor(tags) :
          import_book(r, metadata)
    \/ \E r \in Callers, book_id \in BookInputs,
          metadata \in MetadataFor(tags) :
          process_metadata_to_tags(r, book_id, metadata)
    \/ \E r \in Callers, book_ids \in BookListInputs,
          tag_names \in TagListInputs, operation \in {"add", "remove"} :
          bulk_tag_books(r, book_ids, tag_names, operation)
    \/ \E r \in Callers, source_book_id, target_book_id \in BookInputs :
          copy_tags_between_books(r, source_book_id, target_book_id)
    \/ \E r \in Callers, book_id \in BookInputs,
          suggested_tags \in SuggestedInputs, merge_existing \in BOOLEAN :
          approve_tags(r, book_id, suggested_tags, merge_existing)
    \/ \E r \in Callers, book_id \in BookInputs,
          tag_names \in TagListInputs \cup {<< >>} :
          update_book(r, book_id, tag_names)
    \/ \E r \in Callers, book_ids \in BookListInputs :
          bulk_delete_books(r, book_ids)
    \/ \E r \in Callers, book_id \in BookInputs,
          action \in {"keep_original", "keep_new", "keep_both"} :
          resolve_duplicate(r, book_id, action)
    \/ \E name \in NameInputs, type \in TypeInputs \ {<< >>} :
          create_tag(name, type, << >>)
    \/ \E tag_id \in TagIds : delete_tag(tag_id)

TaggingSpec == TInit /\ [][TNext]_vars

\* C16: after every committed operation that changes tags or books, the
\* usage_count of each tag is the number of rows of book_tags that
\* reference the tag.
C16_UsageCountIsAssociations ==
    \A t \in tags :
        t.usage_count = Cardinality({bt \in book_tags : bt[2] = t.id})

\* the caller r has been answered by op in this step, which committed
Committed(r, op) ==
    /\ commits' = commits + 1
    /\ req'[r].pc = "returned"
    /\ req'[r].quiet
    /\ req'[r].op = op

\* the number of rows of book_tags that reference the tag
Associations(rows, tag_id) == Cardinality({bt \in rows : bt[2] = tag_id})

\* the handlers that add tags to books
AddingOps ==
    {"process_metadata_to_tags", "import_book", "bulk_tag_books",
     "copy_tags_between_books", "approve_tags"}

\* C17: adding a tag to a book that already carries it changes nothing.
\* A second run of process_metadata_to_tags with the same metadata for the
\* same book leaves all tags, their usage counts and all associations as
\* the first run left them; no import, bulk tagging, copying or AI tag
\* application ever inserts a second row for a book and a tag, which the
\* primary key of book_tags would refuse; and each of these operations
\* changes a tag's usage count by exactly the number of rows the tag gains.
C17_AddIsIdempotent ==
    /\ [][\A r \in Requests :
            (/\ req[r].pc = "returned"
             /\ req[r].op = "process_metadata_to_tags"
             /\ req'[r].pc = "returned"
             /\ req'[r].op = "process_metadata_to_tags"
             /\ req'[r].runs = req[r].runs + 1)
            => /\ tags' = tags
               /\ book_tags' = book_tags
               /\ req'[r].result = req[r].result]_vars
    /\ [](\A r \in Requests :
            req[r].pc = "raised" => req[r].error # "book_tags_pkey")
    /\ [][\A r \in Requests, op \in AddingOps :
            Committed(r, op) =>
                \A t \in tags' :
                    t.usage_count - Associations(book_tags', t.id)
                    = LET before == TagsById(t.id)
                      IN  IF before = {} THEN 0
                          ELSE (CHOOSE b \in before : TRUE).usage_count
                                   - Associations(book_tags, t.id)]_vars

\* the same metadata made tags of one book twice in a row: two tags, each
\* on the book and counted once
C17_Witness ==
    /\ req[1].pc = "returned"
    /\ req[1].op = "process_metadata_to_tags"
    /\ req[1].runs = 2
    /\ Len(req[1].result) = 2
    /\ \A k \in DOMAIN req[1].result :
          /\ <<req[1].input[1], req[1].result[k]>> \in book_tags
          /\ \E t \in TagsById(req[1].result[k]) : t.usage_count = 1

\* C18: every stored tag has a name in normalized form, whatever sequence
\* of create_tag, bulk_tag_books, metadata import, update_book with a tags
\* list and AI tag approval has run.
C18_StoredNamesNormalized ==
    \A t \in tags : normalize_tag_name(t.name) = t.name

\* the caller r holds the answer of an import of metadata for a stored
\* book, and nothing has been committed since
Imported(r) ==
    /\ req[r].pc \in {"returned", "raised"}
    /\ req[r].quiet
    /\ \/ req[r].op = "import_book"
       \/ req[r].op = "process_metadata_to_tags" /\ req[r].input[1] \in books

ImportedBook(r) ==
    IF req[r].op = "import_book" THEN next_id.book - 1 ELSE req[r].input[1]

ImportedMetadata(r) ==
    IF req[r].op = "import_book" THEN req[r].input ELSE req[r].input[2]

\* the values of the metadata that make a tag
ValidValues(metadata) ==
    LET values == MetadataValues(metadata)
    IN  {values[k] : k \in {j \in DOMAIN values :
                                /\ Truthy(values[j][1])
                                /\ is_valid_tag_name(values[j][1])}}

\* what the import of the claim leaves: a tag of the normalized name and of
\* the field's type for each valid value, on the book and returned, and a
\* returned list without duplicates that holds nothing else
ImportedAsClaimed(r) ==
    LET book_id == ImportedBook(r)
        values == ValidValues(ImportedMetadata(r))
        final_tags == req[r].result
    IN  /\ req[r].pc = "returned"
        /\ \A v \in values :
              \E t \in tags :
                  /\ t.name = normalize_tag_name(v[1])
                  /\ t.type = v[2]
                  /\ <<book_id, t.id>> \in book_tags
                  /\ \E k \in DOMAIN final_tags : final_tags[k] = t.id
        /\ \A k, j \in DOMAIN final_tags : final_tags[k] = final_tags[j] => k = j
        /\ \A k \in DOMAIN final_tags :
              \E t \in TagsById(final_tags[k]), v \in values :
                  t.name = normalize_tag_name(v[1]) /\ t.type = v[2]
        /\ ImportedMetadata(r) = MdTest => Len(final_tags) = 8

\* C19: process_metadata_to_tags creates or reuses one tag for each valid
\* value of the metadata, named by the normalized value and typed by the
\* field of the value, puts each of these tags on the book and returns them
\* without duplicates; the metadata of the test give eight tags.
C19_ImportMakesTags ==
    \A r \in Requests : Imported(r) => ImportedAsClaimed(r)

\* the same, for the imports that did not raise
C19_ImportMakesTagsUnlessRaised ==
    \A r \in Requests :
        Imported(r) /\ req[r].pc = "returned" => ImportedAsClaimed(r)

\* the metadata of the test imported: eight tags on the book
C19_TestImported ==
    /\ Imported(1)
    /\ req[1].pc = "returned"
    /\ ImportedMetadata(1) = MdTest
    /\ Cardinality(tag_ids_of(book_tags, ImportedBook(1))) = 8

\* the names searched for after a tag was deleted
FormerAliasInputs == {S_b, <<"B">>, <<" ", "b">>, S_d, <<"D">>, S_a, S_c}

C21_NoAliasIsTagName ==
    \A a \in aliases, t \in tags : a.alias # t.name

\* the book carries the tag of this name and type
Carries(b, name, type) ==
    \E t \in tags : /\ t.name = name
                    /\ t.type = type
                    /\ <<b, t.id>> \in book_tags

\* C22: the search for (author:"Gene Wolfe" OR author:"Ursula Le Guin")
\* genre:fantasy returns exactly the books that carry the genre fantasy and
\* one at least of the authors gene_wolfe and ursula_le_guin.
C22_ParenthesizedExpression ==
    (req[1].pc = "done" /\ req[1].expression = Q_paren_authors) =>
        req[1].result
            = {b \in books : /\ Carries(b, S_fantasy, S_genre)
                             /\ \/ Carries(b, S_gene_wolfe, S_author)
                                \/ Carries(b, S_ursula_le_guin, S_author)}

\* C23: what stands inside quotes is never read as syntax.  For a query
\* that is one quoted value, with or without a '-' and a type prefix in
\* front of the opening quote, parse returns one term; its exclude flag is
\* set exactly when the '-' stands in front of the quote, its tag_type is
\* the prefix in front of the quote and None without one, and its name is
\* made of the whole quoted content, spaces, ' OR ', '-' and ':' included.
C23_QuotedContentIsNotSyntax ==
    LET q == req[1].expression
        query == req[1].query
    IN  Parsed(1) =>
          \A i \in DOMAIN q :
              QuotedTermAt(q, i) =>
                  LET from == IF i > 1 /\ q[1] = "-" THEN 2 ELSE 1
                  IN  /\ query.operator = "AND"
                      /\ Len(query.terms) = 1
                      /\ query.terms[1].kind = "TagTerm"
                      /\ query.terms[1].exclude = (from = 2)
                      /\ query.terms[1].tag_type
                            = IF from = i THEN None ELSE SubSeq(q, from, i - 2)
                      /\ query.terms[1].tag_name
                            = StoredName(SubSeq(q, i + 1, Len(q) - 1))

\* C24: a token that is only '-' or that is empty after stripping leaves no
\* term: no term of a parsed query has an empty name, and 'fantasy -'
\* parses to the one term fantasy.
C24_NoEmptyName ==
    Parsed(1) =>
        /\ \A term \in TermsOf(req[1].query) : term.tag_name # << >>
        /\ req[1].expression = Q_fantasy_dash =>
              req[1].query = TagQuery(<<TagTerm(S_fantasy, None, FALSE)>>, "AND")

RECURSIVE Compiles(_, _)
\* the predicate the description gives a query for book b: a term holds iff
\* the book carries the tag (negated when excluded), a query without terms
\* holds for every book, an AND query iff all its entries hold and an OR
\* query iff one of them does
Compiles(node, b) ==
    IF node.kind = "TagTerm" THEN Holds(node, b)
    ELSE IF Len(node.terms) = 0 THEN TRUE
    ELSE IF node.operator = "OR"
         THEN \E k \in DOMAIN node.terms : Compiles(node.terms[k], b)
         ELSE \A k \in DOMAIN node.terms : Compiles(node.terms[k], b)

\* some entry of the query is a nested query without terms
HasEmptyBranch(query) ==
    \E k \in DOMAIN query.terms :
        /\ query.terms[k].kind = "TagQuery"
        /\ Len(query.terms[k].terms) = 0

\* C25: a nested query without terms compiles to the predicate that holds
\* for every book, so it is the identity inside a conjunction and makes a
\* disjunction hold everywhere: a finished search whose OR expression has
\* an empty branch returns every book of the catalog.
C25_EmptyBranchIsTrue ==
    (req[1].pc = "done" /\ req[1].query.kind = "TagQuery") =>
        /\ req[1].result = {b \in books : Compiles(req[1].query, b)}
        /\ HasEmptyBranch(req[1].query) => req[1].result = books

\* the branches of a query: the parts between the matches of \s+OR\s+
\* that lie outside quoted strings
Branches(q) == or_split(substitute_placeholders(q))

OnlyTagTerms(node) ==
    \A k \in DOMAIN node.terms : node.terms[k].kind = "TagTerm"

\* the entry of an OR query that stands for one branch
IsBranchEntry(entry, branch, q, alias_map) ==
    LET sub == parse_and_expression(branch, quoted_values_of(q), alias_map)
    IN  IF Len(Split(branch)) = 1
        THEN /\ entry.kind = "TagTerm"
             /\ entry = sub.terms[1]
        ELSE /\ entry.kind = "TagQuery"
             /\ entry.operator = "AND"
             /\ Len(entry.terms) = Len(Split(branch))
             /\ Len(entry.terms) # 1
             /\ OnlyTagTerms(entry)
             /\ entry.terms = sub.terms

\* C26: a query of more than one branch is parsed to an OR query with one
\* entry per branch, in order, a bare term for a branch of one term and a
\* nested AND query of terms otherwise; so a parse result is at most two
\* levels deep, a nested query is an AND query of terms only and never of
\* exactly one term, and an AND query holds no nested query.
C26_OrQueryShape ==
    Parsed(1) =>
        LET q        == req[1].expression
            query    == req[1].query
            branches == Branches(q)
        IN  /\ query.kind = "TagQuery"
            /\ Len(branches) > 1 =>
                  /\ query.operator = "OR"
                  /\ Len(query.terms) = Len(branches)
                  /\ \A k \in DOMAIN branches :
                        IsBranchEntry(query.terms[k], branches[k], q,
                                      parser[1].aliases_cache)
            /\ Len(branches) <= 1 => query.operator = "AND"
            /\ query.operator = "AND" => OnlyTagTerms(query)
            /\ \A k \in DOMAIN query.terms :
                  query.terms[k].kind = "TagQuery" =>
                      /\ query.operator = "OR"
                      /\ query.terms[k].operator = "AND"
                      /\ Len(query.terms[k].terms) # 1
                      /\ OnlyTagTerms(query.terms[k])

\* a parsed OR query with a bare term and a nested AND query of two terms
C26_Witness ==
    /\ Parsed(1)
    /\ req[1].query.operator = "OR"
    /\ Len(Branches(req[1].expression)) = 2
    /\ \E j, k \in DOMAIN req[1].query.terms :
          /\ req[1].query.terms[j].kind = "TagTerm"
          /\ req[1].query.terms[k].kind = "TagQuery"
          /\ Len(req[1].query.terms[k].terms) = 2

\* C27: a parser instance reads the alias table at most once. The table
\* is read only while the instance has no alias map; the read ends with
\* the map set, also when no alias is stored; from then on the instance
\* keeps that map and every term of its parse is resolved against it.
C27_AliasTableReadOnce ==
    /\ [][\A r \in Requests :
             LET made  == req[r].pc = "idle" /\ req'[r].pc = "parse"
                 reads == req[r].pc # "load" /\ req'[r].pc = "load"
                 read  == req[r].pc = "load" /\ req'[r].pc # "load"
             IN  /\ reads => ~ parser[r].cache_set
                 /\ read => parser'[r].cache_set
                 /\ (parser[r].cache_set /\ ~ made) => parser'[r] = parser[r]
         ]_vars
    /\ [](\A r \in Requests :
             Parsed(r) =>
                 /\ NeedsAliases(req[r].expression) => parser[r].cache_set
                 /\ req[r].query = parse(req[r].expression,
                                         parser[r].aliases_cache))

\* a search of two terms is parsed by an instance that read the table once,
\* here with no alias stored, while an alias was committed since
C27_Witness ==
    \E r \in Requests :
        /\ Parsed(r)
        /\ parser[r].cache_set
        /\ DOMAIN parser[r].aliases_cache = {}
        /\ Len(req[r].query.terms) = 2
        /\ aliases # {}

\* the names a parser instance resolves to another name
ResolvedBy(r) == DOMAIN parser[r].aliases_cache

\* C28: an instance that has resolved a name follows the alias table: when
\* aliases are added or removed afterwards its map is rebuilt, so the names
\* the instance resolves are at any time the aliases the table holds.
C28_CacheFollowsTable ==
    \A r \in Requests :
        (req[r].pc \in {"build", "execute"} /\ parser[r].cache_set) =>
            ResolvedBy(r) = DOMAIN StoredAliasMap

\* what apply_tag_filter returns for a search string on the stored
\* catalog, no commit falling between its steps
SearchOf(search) ==
    Execute(build_filter(parse(search, StoredAliasMap), << >>),
            tags, book_tags, books)

\* C29: in every catalog the management operations lead to, a search by
\* an alias returns the books a search by the canonical name of its tag
\* returns, also negated and with a type prefix.
C29_AliasSearchIsCanonicalSearch ==
    \A a \in aliases, t \in tags :
        a.canonical_tag_id = t.id =>
            /\ SearchOf(a.alias) = SearchOf(t.name)
            /\ SearchOf(<<"-">> \o a.alias) = SearchOf(<<"-">> \o t.name)
            /\ SearchOf(t.type \o <<":">> \o a.alias)
                   = SearchOf(t.type \o <<":">> \o t.name)
            /\ SearchOf(<<"-">> \o t.type \o <<":">> \o a.alias)
                   = SearchOf(<<"-">> \o t.type \o <<":">> \o t.name)

\* C30: get_or_create_tag reuses the stored tag of a name whatever its
\* type and never inserts a name that is stored, so tag names stay unique
\* and no metadata import ends in a failure of the unique index on names.
C30_ImportNeverHitsUniqueName ==
    /\ \A t1, t2 \in tags : t1.name = t2.name => t1.id = t2.id
    /\ \A r \in Requests :
          req[r].pc = "raised" =>
              ~ /\ req[r].op \in {"import_book", "process_metadata_to_tags"}
                /\ req[r].error = "tags_name_key"

====
